---- MODULE Spec2Model ----
(***************************************************************************)
(* post-pectra-monitor: the polling-and-reconciliation engine.             *)
(*                                                                         *)
(*   Store        db.py                  the four tables and their inserts *)
(*   Reconciler   monitor.py             ValidatorExitMonitor.monitor_queue *)
(*   ExitPoller   voluntary_exit_monitor.py  the slot polling loop         *)
(*   Sampler      validator_credentials_monitor.py  the epoch loop         *)
(*   SharedCache  shared_cache.py                                          *)
(*                                                                         *)
(* Every HTTP / JSON-RPC answer is an input of the step that asks for it.  *)
(* A Store call commits on its own (conn.commit() after every INSERT), so  *)
(* every Store call is one step of the model.                              *)
(***************************************************************************)
EXTENDS Integers, Sequences, FiniteSets, TLC

\* ---------------------------------------------------------------- bounds
MaxCalls == 2        \* monitor_queue calls in one behaviour
MaxTicks == 4        \* poller ticks (exit poller and sampler) in one behaviour
MaxValidators == 3   \* validators in one answer given to a summary or a count
MaxClock == 40       \* the latest time.time() of a behaviour of the cache alone
MaxMessages == 3     \* exit messages in one block given to the extraction alone
MaxUpdates == 2      \* update_epoch_and_slot calls made while the cache is read

\* ------------------------------------------------------ program constants
SLOTS_PER_EPOCH == 32
EXIT_DELAY == 256

\* ------------------------------------------------------------ value sets
Slots == {1, SLOTS_PER_EPOCH, SLOTS_PER_EPOCH + 1, 2 * SLOTS_PER_EPOCH}
BlockNumbers == {0, 1}
Pubkey(i) == <<"0xpk1", "0xpk2">>[i]

\* One entry of data[] of /eth/v1/beacon/states/head/validators: validator i as
\* the head state shows it; k tells two observations of it apart. The
\* withdrawal credentials are the hex digits that follow "0x".
ValidatorData(i, k, status) ==
    [index |-> i, balance |-> 32 - k, status |-> status,
     validator |-> [pubkey |-> Pubkey(i), effective_balance |-> 32,
                    exit_epoch |-> 10 + k,
                    withdrawable_epoch |-> 10 + k + EXIT_DELAY,
                    withdrawal_credentials |-> <<0, 1, 0, i>>]]

\* One entry of body.voluntary_exits of a beacon block.
ExitMessage(i, sig) == [message |-> [validator_index |-> i], signature |-> sig]

\* A beacon block as /eth/v2/beacon/blocks/<id> answers it. ok = FALSE is a
\* value without data.message (None, an error body).
BlockData(slot, has_exits, exits) ==
    [ok |-> TRUE, slot |-> slot, has_voluntary_exits |-> has_exits,
     voluntary_exits |-> exits]

NoBlockData ==
    [ok |-> FALSE, slot |-> 0, has_voluntary_exits |-> FALSE,
     voluntary_exits |-> <<>>]

\* The answer to one HTTP request: kind "error" (the request raised), "nodata"
\* (a JSON body without the 'data' key) or "ok" with the data.
Response(kind, data) == [kind |-> kind, data |-> data]
Failed == Response("error", <<>>)
NoData == Response("nodata", <<>>)
Ok(data) == Response("ok", data)

\* One PartialWithdrawalRequested log of eth_getLogs, decoded.
WithdrawalLog(validator, tx, block_number) ==
    [validator |-> validator, recipient |-> "0xrcpt", amount |-> 5, fee |-> 1,
     blockNumber |-> block_number, transactionHash |-> tx]

\* ------------------------------------------------------------- sequences
RECURSIVE SeqSum(_)
SeqSum(s) == IF s = <<>> THEN 0 ELSE Head(s) + SeqSum(Tail(s))

\* ================================================================= Store
\* A table is the sequence of its rows in insertion order (the SERIAL id is the
\* order; the DEFAULT CURRENT_TIMESTAMP column is left out).

VoluntaryExitRow(voluntary_exit, block_slot, block_epoch) ==
    [validator_index |-> voluntary_exit.validator_index,
     exit_epoch |-> voluntary_exit.exit_epoch,
     withdrawable_epoch |-> voluntary_exit.withdrawable_epoch,
     balance |-> voluntary_exit.balance,
     effective_balance |-> voluntary_exit.effective_balance,
     pubkey |-> voluntary_exit.pubkey,
     signature |-> voluntary_exit.signature,
     slot |-> block_slot,
     epoch |-> block_epoch]

\* UNIQUE(validator_index, signature)
VoluntaryExitConflict(table, row) ==
    \E i \in DOMAIN table :
        /\ table[i].validator_index = row.validator_index
        /\ table[i].signature = row.signature

\* UNIQUE(transaction_hash)
PartialWithdrawalConflict(table, row) ==
    \E i \in DOMAIN table : table[i].transaction_hash = row.transaction_hash

\* epoch INTEGER PRIMARY KEY
CredentialsConflict(table, row) ==
    \E i \in DOMAIN table : table[i].epoch = row.epoch

\* A plain INSERT into a table without the UNIQUE constraint (variant).
InsertVoluntaryExit_NoConstraint(table, row) == Append(table, row)

\* ON CONFLICT (validator_index, signature) DO UPDATE: the stored row takes the
\* new values (variant).
InsertVoluntaryExit_Upsert(table, row) ==
    IF VoluntaryExitConflict(table, row)
    THEN [i \in DOMAIN table |->
             IF /\ table[i].validator_index = row.validator_index
                /\ table[i].signature = row.signature
             THEN row ELSE table[i]]
    ELSE Append(table, row)

\* INSERT ... ON CONFLICT (validator_index, signature) DO NOTHING
InsertVoluntaryExit(table, row) ==
    IF VoluntaryExitConflict(table, row) THEN table ELSE Append(table, row)

\* INSERT ... ON CONFLICT (transaction_hash) DO NOTHING
InsertPartialWithdrawal(table, row) ==
    IF PartialWithdrawalConflict(table, row) THEN table ELSE Append(table, row)

\* A plain INSERT into a table without the key on epoch (variant).
InsertCredentials_NoConstraint(table, row) == Append(table, row)

\* INSERT ... ON CONFLICT (epoch) DO NOTHING
InsertCredentials(table, row) ==
    IF CredentialsConflict(table, row) THEN table ELSE Append(table, row)

\* A full_exits_queue with one row per (slot, epoch) (variant).
InsertFullExitsQueue_OncePerSlot(table, row) ==
    IF \E i \in DOMAIN table :
          table[i].slot = row.slot /\ table[i].epoch = row.epoch
    THEN table ELSE Append(table, row)

\* INSERT INTO full_exits_queue: no uniqueness constraint
InsertFullExitsQueue(table, row) == Append(table, row)

\* A plain INSERT, whose duplicate key is a database error (variant).
SaveRaises_OnDuplicate(dbUp, conflict) == ~dbUp \/ conflict

\* Whether a save_* call raises: each wraps its INSERT in try/except that logs
\* and re-raises, so it raises exactly when the database does. With ON CONFLICT
\* DO NOTHING a duplicate key is no database error; what is left is the
\* database being unreachable (dbUp = FALSE).

SaveRaises(dbUp, conflict) == ~dbUp

\* ============================================================ Reconciler
\* exit_data_map: validator index -> its exit message; a later message of the
\* same validator replaces the earlier one.
exit_data_map(msgs) ==
    [i \in {msgs[j].message.validator_index : j \in DOMAIN msgs} |->
        msgs[CHOOSE j \in DOMAIN msgs :
                /\ msgs[j].message.validator_index = i
                /\ \A k \in DOMAIN msgs :
                      msgs[k].message.validator_index = i => k <= j]]

\* The dict built for one joined exit message.
VoluntaryExit(validator_data, exit_data) ==
    [validator_index |-> validator_data.index,
     exit_epoch |-> validator_data.validator.exit_epoch,
     withdrawable_epoch |-> validator_data.validator.withdrawable_epoch,
     balance |-> validator_data.balance,
     effective_balance |-> validator_data.validator.effective_balance,
     pubkey |-> validator_data.validator.pubkey,
     signature |-> exit_data.signature]

\* get_voluntary_exits_in_block(block_data), validators being the answer to its
\* one batch request. Every failure inside is caught and gives [].
get_voluntary_exits_in_block(block_data, validators) ==
    IF ~block_data.ok \/ ~block_data.has_voluntary_exits THEN <<>>
    ELSE IF block_data.voluntary_exits = <<>> THEN <<>>
    ELSE IF validators.kind # "ok" THEN <<>>
    ELSE LET map == exit_data_map(block_data.voluntary_exits)
             found == SelectSeq(validators.data,
                                LAMBDA v : v.index \in DOMAIN map)
         IN  [j \in 1..Len(found) |-> VoluntaryExit(found[j], map[found[j].index])]

\* Whether get_voluntary_exits_in_block sends the batch validator request.
BatchLookupSent(block_data) ==
    /\ block_data.ok
    /\ block_data.has_voluntary_exits
    /\ block_data.voluntary_exits # <<>>

\* withdrawal_data_map: validator address -> its log; a later log of the same
\* address replaces the earlier one.
withdrawal_data_map(logs) ==
    [a \in {logs[j].validator : j \in DOMAIN logs} |->
        logs[CHOOSE j \in DOMAIN logs :
                /\ logs[j].validator = a
                /\ \A k \in DOMAIN logs : logs[k].validator = a => k <= j]]

\* The dict built for one joined withdrawal log.
Withdrawal(validator_data, log, current_slot, current_epoch) ==
    [validator_index |-> validator_data.index,
     exit_epoch |-> validator_data.validator.exit_epoch,
     balance |-> validator_data.balance,
     effective_balance |-> validator_data.validator.effective_balance,
     pubkey |-> validator_data.validator.pubkey,
     recipient_address |-> log.recipient,
     partial_withdrawal_amount |-> log.amount,
     request_fee_paid |-> log.fee,
     block_number |-> log.blockNumber,
     transaction_hash |-> log.transactionHash,
     slot |-> current_slot,
     epoch |-> current_epoch]

\* The inputs of one get_partial_withdrawals call: block_number answers
\* w3.eth.block_number (data = the number), logs answers eth_getLogs, head1 and
\* head2 answer the two blocks/head requests of get_current_slot and
\* get_current_epoch (data = the slot), validators answers the batch request.
WithdrawalInputs(block_number, logs, head1, head2, validators) ==
    [block_number |-> block_number, logs |-> logs, head1 |-> head1,
     head2 |-> head2, validators |-> validators]

\* get_partial_withdrawals up to its first save: the new last_checked_block and
\* the withdrawals it goes on to save, in order. Every failure inside is caught
\* and gives [].
partial_withdrawals_found(last_checked_block, in) ==
    IF in.block_number.kind # "ok" THEN <<>>
    ELSE IF in.block_number.data <= last_checked_block THEN <<>>
    ELSE IF in.logs.kind = "error" THEN <<>>
    ELSE IF in.head1.kind # "ok" \/ in.head2.kind # "ok" THEN <<>>
    ELSE IF in.logs.data = <<>> THEN <<>>
    ELSE IF in.validators.kind # "ok" THEN <<>>
    ELSE LET map == withdrawal_data_map(in.logs.data)
             found == SelectSeq(in.validators.data,
                                LAMBDA v : v.validator.pubkey \in DOMAIN map)
         IN  [j \in 1..Len(found) |->
                Withdrawal(found[j], map[found[j].validator.pubkey],
                           in.head1.data, in.head2.data \div SLOTS_PER_EPOCH)]

\* A range that starts at last_checked_block itself (variant).
logs_range_FromWatermark(last_checked_block, in) ==
    IF in.block_number.kind = "ok" /\ in.block_number.data > last_checked_block
    THEN <<last_checked_block, in.block_number.data>>
    ELSE <<>>

\* The block range of the eth_getLogs query, <<fromBlock, toBlock>>: from
\* last_checked_block + 1 to current_block; <<>> when the call sends no query.
logs_range(last_checked_block, in) ==
    IF in.block_number.kind = "ok" /\ in.block_number.data > last_checked_block
    THEN <<last_checked_block + 1, in.block_number.data>>
    ELSE <<>>

\* self.last_checked_block = current_block, reached once eth_getLogs answered.
last_checked_block_after(last_checked_block, in) ==
    IF /\ in.block_number.kind = "ok"
       /\ in.block_number.data > last_checked_block
       /\ in.logs.kind # "error"
    THEN in.block_number.data
    ELSE last_checked_block

\* The first validator of the answer, unsorted (variant).
first_validator_Unsorted(validators) == validators[1]

\* A validator placed before the sorted ones of its own exit_epoch (variant:
\* the order of equal keys is reversed).
RECURSIVE PlaceSorted_BeforeEqual(_, _)
PlaceSorted_BeforeEqual(v, s) ==
    IF s = <<>> THEN <<v>>
    ELSE IF v.validator.exit_epoch <= Head(s).validator.exit_epoch
    THEN <<v>> \o s
    ELSE <<Head(s)>> \o PlaceSorted_BeforeEqual(v, Tail(s))

\* One validator placed into a list sorted by exit_epoch, after the validators
\* of the same exit_epoch that came before it in the answer.
RECURSIVE PlaceSorted(_, _)
PlaceSorted(v, s) ==
    IF s = <<>> THEN <<v>>
    ELSE IF v.validator.exit_epoch < Head(s).validator.exit_epoch
    THEN <<v>> \o s
    ELSE <<Head(s)>> \o PlaceSorted(v, Tail(s))

\* sorted(validators, key=lambda x: int(x['validator']['exit_epoch'])): Python's
\* sort is stable, validators of equal exit_epoch keep the answer's order.
RECURSIVE sorted_validators(_)
sorted_validators(validators) ==
    IF validators = <<>> THEN <<>>
    ELSE PlaceSorted(validators[Len(validators)],
                     sorted_validators(SubSeq(validators, 1, Len(validators) - 1)))

\* first_validator = sorted_validators[0]
first_validator(validators) == sorted_validators(validators)[1]

\* last_validator = sorted_validators[-1]
last_validator(validators) ==
    sorted_validators(validators)[Len(validators)]

\* None also for an empty validator list (variant).
get_active_exiting_validators_NoneOnEmpty(response) ==
    [ok |-> FALSE, validators_in_queue |-> 0,
     earliest_exit_epoch |-> 0, earliest_withdrawable_epoch |-> 0,
     latest_exit_epoch |-> 0, lastest_withdrawable_epoch |-> 0,
     first_validator_index |-> 0, first_validator_pubkey |-> "",
     last_validator_index |-> 0, last_validator_pubkey |-> "",
     balance_in_queue |-> 0]

\* get_active_exiting_validators, response answering its one request. ok = FALSE
\* is the None it returns on a failed request or a body without 'data'.
get_active_exiting_validators(response) ==
    IF response.kind # "ok" THEN
        [ok |-> FALSE, validators_in_queue |-> 0,
         earliest_exit_epoch |-> 0, earliest_withdrawable_epoch |-> 0,
         latest_exit_epoch |-> 0, lastest_withdrawable_epoch |-> 0,
         first_validator_index |-> 0, first_validator_pubkey |-> "",
         last_validator_index |-> 0, last_validator_pubkey |-> "",
         balance_in_queue |-> 0]
    ELSE IF response.data = <<>> THEN
        [ok |-> TRUE, validators_in_queue |-> 0,
         earliest_exit_epoch |-> 0, earliest_withdrawable_epoch |-> 0,
         latest_exit_epoch |-> 0, lastest_withdrawable_epoch |-> 0,
         first_validator_index |-> 0, first_validator_pubkey |-> "",
         last_validator_index |-> 0, last_validator_pubkey |-> "",
         balance_in_queue |-> 0]
    ELSE LET validators == response.data
             first == first_validator(validators)
             last_ == last_validator(validators)
         IN  [ok |-> TRUE, validators_in_queue |-> Len(validators),
              earliest_exit_epoch |-> first.validator.exit_epoch,
              earliest_withdrawable_epoch |-> first.validator.withdrawable_epoch,
              latest_exit_epoch |-> last_.validator.exit_epoch,
              lastest_withdrawable_epoch |-> last_.validator.withdrawable_epoch,
              first_validator_index |-> first.index,
              first_validator_pubkey |-> first.validator.pubkey,
              last_validator_index |-> last_.index,
              last_validator_pubkey |-> last_.validator.pubkey,
              balance_in_queue |->
                  SeqSum([i \in DOMAIN validators |-> validators[i].balance])]

\* The full_exits_queue row of a summary: active_exiting_data.update(slot, epoch).
FullExitsQueueRow(data, current_slot, current_epoch) ==
    [slot |-> current_slot, epoch |-> current_epoch,
     validators_in_queue |-> data.validators_in_queue,
     earliest_exit_epoch |-> data.earliest_exit_epoch,
     earliest_withdrawable_epoch |-> data.earliest_withdrawable_epoch,
     latest_exit_epoch |-> data.latest_exit_epoch,
     lastest_withdrawable_epoch |-> data.lastest_withdrawable_epoch,
     first_validator_index |-> data.first_validator_index,
     first_validator_pubkey |-> data.first_validator_pubkey,
     last_validator_index |-> data.last_validator_index,
     last_validator_pubkey |-> data.last_validator_pubkey,
     balance_in_queue |-> data.balance_in_queue]

\* The snapshot taken on every call (variant).
SnapshotDue_Always(voluntary_exits, has_last_processed_slot) == TRUE

\* if voluntary_exits or not hasattr(self, 'last_processed_slot')
SnapshotDue(voluntary_exits, has_last_processed_slot) ==
    voluntary_exits # <<>> \/ ~has_last_processed_slot

\* The requests one get_partial_withdrawals call sends.
partial_withdrawals_requests(last_checked_block, in) ==
    {"eth_blockNumber"}
    \cup (IF /\ in.block_number.kind = "ok"
             /\ in.block_number.data > last_checked_block
          THEN {"eth_getLogs"} ELSE {})
    \cup (IF last_checked_block_after(last_checked_block, in) # last_checked_block
          THEN {"head"} ELSE {})
    \cup (IF /\ last_checked_block_after(last_checked_block, in) # last_checked_block
             /\ in.head1.kind = "ok" /\ in.head2.kind = "ok"
             /\ in.logs.data # <<>>
          THEN {"validators_by_address"} ELSE {})

\* The requests of one get_partial_withdrawals call that failed.
partial_withdrawals_failures(last_checked_block, in) ==
    LET sent == partial_withdrawals_requests(last_checked_block, in)
    IN  {r \in sent :
            \/ r = "eth_blockNumber" /\ in.block_number.kind # "ok"
            \/ r = "eth_getLogs" /\ in.logs.kind # "ok"
            \/ r = "head" /\ (in.head1.kind # "ok" \/ in.head2.kind # "ok")
            \/ r = "validators_by_address" /\ in.validators.kind # "ok"}

\* ============================================================ SharedCache
\* self._cache_duration = 12
cache_duration == 12

\* "Not older than" in place of "older than" (variant).
expired_AtDuration(current_time, last_update_time) ==
    current_time - last_update_time >= cache_duration

\* if current_time - self._last_update_time > self._cache_duration
expired(current_time, last_update_time) ==
    current_time - last_update_time > cache_duration

\* time.time() when the process starts: long after time 0.
StartTime == 13

\* SharedCache.__init__: no values, _last_update_time = 0, so expired.
NewCache == [set |-> FALSE, epoch |-> 0, slot |-> 0, fresh |-> FALSE]

\* get_current_epoch_and_slot: (None, None) once older than _cache_duration.
get_current_epoch_and_slot(c) ==
    IF ~c.fresh THEN [ok |-> FALSE, epoch |-> 0, slot |-> 0]
    ELSE [ok |-> c.set, epoch |-> c.epoch, slot |-> c.slot]

\* update_epoch_and_slot(epoch, slot)
update_epoch_and_slot(c, epoch, slot) ==
    [set |-> TRUE, epoch |-> epoch, slot |-> slot, fresh |-> TRUE]

\* shared_cache.get('current_slot') and .get('current_epoch') as the exit poller
\* calls them: the cached values, None when there are none or they expired.
cache_get(c) == get_current_epoch_and_slot(c)

\* ============================================================ ExitPoller
\* VoluntaryExitMonitor.__init__: last_processed_slot = 0.
NewExitPoller ==
    [last_processed_slot |-> 0, pc |-> "idle", slot |-> 0, epoch |-> 0,
     pending |-> <<>>, asleep |-> FALSE]

\* if not current_slot or not current_epoch: None and 0 are both falsy.
cache_unavailable(c) == ~c.ok \/ c.slot = 0 \/ c.epoch = 0

\* The test with >= in place of > (variant).
slot_is_new_OrEqual(current_slot, last_processed_slot) ==
    current_slot >= last_processed_slot

\* if current_slot > self.last_processed_slot
slot_is_new(current_slot, last_processed_slot) ==
    current_slot > last_processed_slot

\* The block was answered and has no body.voluntary_exits.
has_no_voluntary_exits(block) ==
    /\ block.kind = "ok"
    /\ ~(block.data.ok /\ block.data.has_voluntary_exits)

\* None for a block without the field (variant).
get_voluntary_exits_NoneOnAbsent(block) ==
    IF block.kind = "ok" /\ block.data.ok /\ block.data.has_voluntary_exits
    THEN [ok |-> TRUE, exits |-> block.data.voluntary_exits]
    ELSE [ok |-> FALSE, exits |-> <<>>]

\* VoluntaryExitMonitor.get_voluntary_exits(slot), block answering get_block:
\* ok = FALSE is the None of a failed fetch or a body without 'data'.
get_voluntary_exits(block) ==
    IF block.kind # "ok" THEN [ok |-> FALSE, exits |-> <<>>]
    ELSE IF block.data.ok /\ block.data.has_voluntary_exits
         THEN [ok |-> TRUE, exits |-> block.data.voluntary_exits]
         ELSE [ok |-> TRUE, exits |-> <<>>]

\* The watermark after get_voluntary_exits answered for current_slot and the
\* block's exits (if any) were saved: line 100 is reached whether or not
\* voluntary_exits is None.
watermark_after_fetch(last_processed_slot, current_slot, fetched) == current_slot

\* The row of self.db.save_voluntary_exit(validator_index=..., ..., slot=...,
\* epoch=...) as the loop calls it: the same columns from the validator's entry
\* and the exit message, with the cached slot and epoch.
ExitPollerRow(validator_info, exit_data, current_slot, current_epoch) ==
    VoluntaryExitRow(VoluntaryExit(validator_info, exit_data),
                     current_slot, current_epoch)

\* VoluntaryExitMonitor.get_validator_info(validator_index), response answering
\* get_validators: the first entry with that index, else None (found = FALSE).
get_validator_info(validator_index, response) ==
    IF response.kind # "ok" THEN [found |-> FALSE, info |-> <<>>]
    ELSE LET hits == SelectSeq(response.data,
                               LAMBDA v : v.index = validator_index)
         IN  IF hits = <<>> THEN [found |-> FALSE, info |-> <<>>]
             ELSE [found |-> TRUE, info |-> Head(hits)]

\* =============================================================== Sampler
NoEpoch == -1

RECURSIVE SeqMax(_)
SeqMax(s) ==
    IF s = <<>> THEN NoEpoch
    ELSE LET m == SeqMax(Tail(s)) IN IF Head(s) > m THEN Head(s) ELSE m

\* A sampler that starts from -1 whatever is stored (variant).
get_last_processed_epoch_FromStart(table, dbUp) == NoEpoch

\* _get_last_processed_epoch: SELECT MAX(epoch), -1 on an empty table or a
\* failed query.
get_last_processed_epoch(table, dbUp) ==
    IF ~dbUp THEN NoEpoch
    ELSE SeqMax([i \in DOMAIN table |-> table[i].epoch])

NewSampler(table, dbUp) ==
    [last_processed_epoch |-> get_last_processed_epoch(table, dbUp),
     running |-> TRUE, asleep |-> FALSE]

\* get_current_epoch / get_current_slot, head answering blocks/head (data = the
\* slot): None (ok = FALSE) on a failed request or an unexpected body.
get_current_slot(head) ==
    IF head.kind = "ok" THEN [ok |-> TRUE, value |-> head.data]
    ELSE [ok |-> FALSE, value |-> 0]

get_current_epoch(head) ==
    IF head.kind = "ok"
    THEN [ok |-> TRUE, value |-> head.data \div SLOTS_PER_EPOCH]
    ELSE [ok |-> FALSE, value |-> 0]

\* A test of the first hex digit only (variant).
StartsWith_FirstDigit(s, prefix) == Len(s) >= 1 /\ s[1] = prefix[1]

\* withdrawal_credentials.startswith('0x01') / ('0x02') on the hex digits.
StartsWith(s, prefix) ==
    /\ Len(s) >= Len(prefix)
    /\ \A i \in DOMAIN prefix : s[i] = prefix[i]

RECURSIVE CountPrefix(_, _)
CountPrefix(credentials, prefix) ==
    IF credentials = <<>> THEN 0
    ELSE (IF StartsWith(Head(credentials), prefix) THEN 1 ELSE 0)
         + CountPrefix(Tail(credentials), prefix)

\* get_validator_credentials, response answering the active_ongoing request
\* (data = the withdrawal_credentials of each validator, <<>> for a validator
\* without the field): (None, None) is ok = FALSE.
get_validator_credentials(response) ==
    IF response.kind # "ok" THEN [ok |-> FALSE, num_0x01 |-> 0, num_0x02 |-> 0]
    ELSE [ok |-> TRUE,
          num_0x01 |-> CountPrefix(response.data, <<0, 1>>),
          num_0x02 |-> CountPrefix(response.data, <<0, 2>>)]

CredentialsRow(epoch, slot, num_0x01, num_0x02) ==
    [epoch |-> epoch, slot |-> slot, num_0x01_validators |-> num_0x01,
     num_0x02_validators |-> num_0x02]

\* ================================================================= state
VARIABLES
    voluntary_exits,                    \* table voluntary_exits
    partial_withdrawals,                \* table partial_withdrawals
    full_exits_queue,                   \* table full_exits_queue
    validator_withdrawal_credentials,   \* table validator_withdrawal_credentials
    mon,        \* the ValidatorExitMonitor instance: whether it has the attribute
                \* last_processed_slot, its value, last_checked_block, and the
                \* number of monitor_queue calls made on the instance
    mq,         \* the monitor_queue call in progress: its position, the block's
                \* slot and number of exit messages, the requests that failed
                \* so far, the tables it wrote a row to so far, the block's
                \* messages whose validator the batch response held or
                \* omitted, the exits and withdrawals still to save
    calls,      \* monitor_queue calls made in this behaviour
    cache,      \* the SharedCache singleton
    vem,        \* the VoluntaryExitMonitor instance and its loop's position
    seen,       \* what the exit poller's loop met since it started: the highest
                \* head slot it read, whether the slots it read were strictly
                \* increasing, whether every fetch and save went through, the
                \* slots it fetched a block for, whether one was fetched twice,
                \* whether a save of the loop raised, whether the block of
                \* the latest tick had no voluntary_exits field
    sampler,    \* run_validator_credentials_monitor: its last_processed_epoch,
                \* whether it still runs, whether it sleeps
    ml,         \* run_voluntary_exit_monitor_loop of main.py: whether it still
                \* runs, whether it sleeps
    ticks,      \* poller ticks made in this behaviour
    last        \* the step just taken: the operation, the requests it sent,
                \* whether the database was reachable, whether it raised

tables == <<voluntary_exits, partial_withdrawals, full_exits_queue,
            validator_withdrawal_credentials>>

monitorVars == <<mon, mq, calls>>

pollerVars == <<cache, vem, seen, sampler, ml, ticks>>

vars == <<voluntary_exits, partial_withdrawals, full_exits_queue,
          validator_withdrawal_credentials, mon, mq, calls, cache, vem, seen,
          sampler, ml, ticks, last>>

\* op: the operation; requests: the requests it sent; failed: those of them
\* that raised or came without 'data'; dbUp: the database was reachable for
\* its INSERT; conflict: the INSERT met a stored row with its key; raised: the
\* operation raised.
Step(op, requests, failed, dbUp, conflict, raised) ==
    [op |-> op, requests |-> requests, failed |-> failed, dbUp |-> dbUp,
     conflict |-> conflict, raised |-> raised]

Quiet(op) == Step(op, {}, {}, TRUE, FALSE, FALSE)

\* ----------------------------------------------------------- construction
\* What a process finds missing when it starts: an environment variable that
\* is unset, a database that refuses the connection.
Settings == {"QUICKNODE_URL", "BEACON_API_URL", "database"}

\* BeaconAPI.__init__: ValueError when BEACON_API_URL is unset.
BeaconAPI_raises(missing) == "BEACON_API_URL" \in missing

\* A Database that connects at its first query only (variant).
Database_raises_Lazy(missing) == FALSE

\* Database.__init__: connect() re-raises the error of psycopg2.connect.
Database_raises(missing) == "database" \in missing

\* Importing monitor.py raises ValueError when QUICKNODE_URL is unset;
\* ValidatorExitMonitor.__init__ constructs Database().
ValidatorExitMonitor_raises(missing) ==
    "QUICKNODE_URL" \in missing \/ Database_raises(missing)

\* VoluntaryExitMonitor.__init__: BeaconAPI(), then Database().
VoluntaryExitMonitor_raises(missing) ==
    BeaconAPI_raises(missing) \/ Database_raises(missing)

\* ValidatorCredentialsMonitor.__init__: Database().
ValidatorCredentialsMonitor_raises(missing) == Database_raises(missing)

\* main.py raises at import when QUICKNODE_URL is unset (its own test and the
\* one of monitor.py), before main() starts a process.
main_raises(missing) == "QUICKNODE_URL" \in missing

\* ValidatorExitMonitor.__init__: no last_processed_slot attribute yet;
\* last_checked_block = w3.eth.block_number.
NewMonitor(block_number) ==
    [alive |-> TRUE, has_last_processed_slot |-> FALSE,
     last_processed_slot |-> 0, last_checked_block |-> block_number,
     calls |-> 0]

NoCall ==
    [pc |-> "idle", slot |-> 0, messages |-> 0, failed |-> {},
     written |-> {}, present |-> {}, omitted |-> {},
     voluntary_exits |-> <<>>, withdrawals |-> <<>>]

\* The exit messages of a block, as <<validator_index, signature>>, whose
\* validator the answered batch response holds (present = TRUE) or omits
\* (present = FALSE); none when no batch request was answered.
MessagesOf(block_data, validators, present) ==
    IF ~BatchLookupSent(block_data) \/ validators.kind # "ok" THEN {}
    ELSE LET msgs == block_data.voluntary_exits
             answered == {validators.data[j].index : j \in DOMAIN validators.data}
         IN  {<<msgs[j].message.validator_index, msgs[j].signature>> :
                 j \in {k \in DOMAIN msgs :
                           (msgs[k].message.validator_index \in answered)
                               = present}}

\* The call returned or raised; what stays is the number of exit messages its
\* block held.
Ended(call) == [NoCall EXCEPT !.messages = call.messages]

\* monitor_queue(block_data), lines 471-480 up to the first save inside
\* get_partial_withdrawals. block_data without data.message raises at once.
MonitorQueue_Call(block_data, validators, in) ==
    /\ mon.alive
    /\ mq.pc = "idle"
    /\ calls < MaxCalls
    /\ calls' = calls + 1
    /\ UNCHANGED <<tables, pollerVars>>
    /\ IF ~block_data.ok
       THEN /\ mon' = [mon EXCEPT !.calls = @ + 1]
            /\ mq' = NoCall
            /\ last' = Step("monitor_queue", {}, {}, TRUE, FALSE, TRUE)
       ELSE LET exits == get_voluntary_exits_in_block(block_data, validators)
                found == partial_withdrawals_found(mon.last_checked_block, in)
                failed == (IF /\ BatchLookupSent(block_data)
                              /\ validators.kind # "ok"
                           THEN {"validators"} ELSE {})
                          \cup partial_withdrawals_failures(
                                   mon.last_checked_block, in)
            IN  /\ mon' = [mon EXCEPT
                      !.calls = @ + 1,
                      !.last_checked_block = last_checked_block_after(@, in)]
                /\ mq' = [pc |-> IF found = <<>> THEN "snapshot" ELSE "withdrawals",
                          slot |-> block_data.slot,
                          messages |-> IF block_data.has_voluntary_exits
                                       THEN Len(block_data.voluntary_exits) ELSE 0,
                          failed |-> failed,
                          written |-> {},
                          present |-> MessagesOf(block_data, validators, TRUE),
                          omitted |-> MessagesOf(block_data, validators, FALSE),
                          voluntary_exits |-> exits,
                          withdrawals |-> found]
                /\ last' = Step("monitor_queue",
                                (IF BatchLookupSent(block_data)
                                 THEN {"validators"} ELSE {})
                                \cup partial_withdrawals_requests(
                                         mon.last_checked_block, in),
                                failed, TRUE, FALSE, FALSE)

\* self.db.save_partial_withdrawal(withdrawal) inside get_partial_withdrawals,
\* line 394. A raise is caught by get_partial_withdrawals, which returns [].
MonitorQueue_SavePartialWithdrawal(dbUp) ==
    /\ mq.pc = "withdrawals"
    /\ LET row == Head(mq.withdrawals)
           raised == SaveRaises(dbUp,
                         PartialWithdrawalConflict(partial_withdrawals, row))
           rest == IF raised THEN <<>> ELSE Tail(mq.withdrawals)
       IN  /\ partial_withdrawals' =
                 IF raised THEN partial_withdrawals
                 ELSE InsertPartialWithdrawal(partial_withdrawals, row)
           /\ mq' = [mq EXCEPT !.withdrawals = rest,
                               !.pc = IF rest = <<>> THEN "snapshot"
                                      ELSE "withdrawals",
                               !.written =
                                   IF partial_withdrawals' # partial_withdrawals
                                   THEN @ \cup {"partial_withdrawals"} ELSE @]
           /\ last' = Step("save_partial_withdrawal", {}, {}, dbUp,
                           PartialWithdrawalConflict(partial_withdrawals, row),
                           raised)
    /\ UNCHANGED <<voluntary_exits, full_exits_queue,
                   validator_withdrawal_credentials, mon, calls, pollerVars>>

\* monitor_queue lines 485-499: the snapshot when due, then
\* self.last_processed_slot = current_slot. A raise of save_full_exits_queue
\* ends the call before the assignment.
MonitorQueue_Snapshot(response, dbUp) ==
    /\ mq.pc = "snapshot"
    /\ LET due == SnapshotDue(mq.voluntary_exits, mon.has_last_processed_slot)
           data == get_active_exiting_validators(response)
           saves == due /\ data.ok
           raised == saves /\ SaveRaises(dbUp, FALSE)
       IN  /\ full_exits_queue' =
                 IF saves /\ ~raised
                 THEN InsertFullExitsQueue(full_exits_queue,
                          FullExitsQueueRow(data, mq.slot,
                                            mq.slot \div SLOTS_PER_EPOCH))
                 ELSE full_exits_queue
           /\ mon' = IF raised THEN mon
                     ELSE [mon EXCEPT !.has_last_processed_slot = TRUE,
                                      !.last_processed_slot = mq.slot]
           /\ mq' = IF raised \/ mq.voluntary_exits = <<>>
                    THEN Ended(mq)
                    ELSE [mq EXCEPT
                             !.pc = "exits",
                             !.failed = IF due /\ ~data.ok
                                        THEN @ \cup {"active_exiting"} ELSE @,
                             !.written = IF saves
                                         THEN @ \cup {"full_exits_queue"}
                                         ELSE @]
           /\ last' = Step("snapshot",
                           IF due THEN {"active_exiting"} ELSE {},
                           IF due /\ ~data.ok THEN {"active_exiting"} ELSE {},
                           saves => dbUp, FALSE, raised)
    /\ UNCHANGED <<voluntary_exits, partial_withdrawals,
                   validator_withdrawal_credentials, calls, pollerVars>>

\* monitor_queue lines 502-503: self.db.save_voluntary_exit(exit_data,
\* current_slot, current_epoch) for the next exit; a raise ends the call.
MonitorQueue_SaveVoluntaryExit(dbUp) ==
    /\ mq.pc = "exits"
    /\ LET row == VoluntaryExitRow(Head(mq.voluntary_exits), mq.slot,
                                   mq.slot \div SLOTS_PER_EPOCH)
           raised == SaveRaises(dbUp, VoluntaryExitConflict(voluntary_exits, row))
           rest == Tail(mq.voluntary_exits)
       IN  /\ voluntary_exits' =
                 IF raised THEN voluntary_exits
                 ELSE InsertVoluntaryExit(voluntary_exits, row)
           /\ mq' = IF raised \/ rest = <<>> THEN Ended(mq)
                    ELSE [mq EXCEPT !.voluntary_exits = rest]
           /\ last' = Step("save_voluntary_exit", {}, {}, dbUp,
                           VoluntaryExitConflict(voluntary_exits, row), raised)
    /\ UNCHANGED <<partial_withdrawals, full_exits_queue,
                   validator_withdrawal_credentials, mon, calls, pollerVars>>

\* The reconciler's process is ended and started again: a new
\* ValidatorExitMonitor, the tables as they are. When its construction raises
\* there is no instance to call monitor_queue on.
Monitor_Restart(missing, block_number) ==
    /\ mon' = [NewMonitor(block_number) EXCEPT
                  !.alive = ~ValidatorExitMonitor_raises(missing)]
    /\ mq' = NoCall
    /\ last' = Step("monitor_restart", {}, missing, TRUE, FALSE,
                    ValidatorExitMonitor_raises(missing))
    /\ UNCHANGED <<tables, calls, pollerVars>>

\* ------------------------------------------------------------ ExitPoller
NothingSeen ==
    [any |-> FALSE, highest |-> 0, increasing |-> TRUE, clean |-> TRUE,
     fetched |-> {}, twice |-> FALSE, raised |-> FALSE, absent |-> FALSE]

Observed(s, slot) ==
    [s EXCEPT !.any = TRUE,
              !.highest = IF slot > @ THEN slot ELSE @,
              !.increasing = @ /\ (s.any => slot > s.highest)]

Fetched(s, slot, ok) ==
    [s EXCEPT !.fetched = @ \cup {slot},
              !.twice = @ \/ slot \in s.fetched,
              !.clean = @ /\ ok]

\* One iteration of run_voluntary_exit_monitor_loop up to its first save: the
\* cache read, the watermark test, the block fetch. An iteration without an
\* exit to save ends here in time.sleep(12).
ExitPoller_Tick(block) ==
    /\ vem.pc = "idle"
    /\ ~vem.asleep
    /\ ticks < MaxTicks
    /\ ticks' = ticks + 1
    /\ LET c == cache_get(cache)
           got == get_voluntary_exits(block)
       IN  IF cache_unavailable(c)
           THEN /\ vem' = [vem EXCEPT !.asleep = TRUE]
                /\ seen' = [(IF c.ok THEN Observed(seen, c.slot) ELSE seen)
                               EXCEPT !.absent = FALSE]
                /\ last' = Quiet("exit_tick")
           ELSE IF slot_is_new(c.slot, vem.last_processed_slot)
           THEN /\ vem' = IF got.ok /\ got.exits # <<>>
                          THEN [vem EXCEPT !.pc = "exits", !.slot = c.slot,
                                           !.epoch = c.epoch,
                                           !.pending = got.exits]
                          ELSE [vem EXCEPT
                                   !.last_processed_slot =
                                       watermark_after_fetch(@, c.slot, got.ok),
                                   !.asleep = TRUE]
                /\ seen' = [Fetched(Observed(seen, c.slot), c.slot, got.ok)
                               EXCEPT !.absent = has_no_voluntary_exits(block)]
                /\ last' = Step("exit_tick", {"block"},
                                IF got.ok THEN {} ELSE {"block"},
                                TRUE, FALSE, FALSE)
           ELSE /\ vem' = [vem EXCEPT !.asleep = TRUE]
                /\ seen' = [Observed(seen, c.slot) EXCEPT !.absent = FALSE]
                /\ last' = Quiet("exit_tick")
    /\ UNCHANGED <<tables, monitorVars, cache, sampler, ml>>

\* The body of `for exit_data in voluntary_exits` for the next exit:
\* get_validator_info, then save_voluntary_exit when the validator was found.
\* A raise of the save is caught by the loop, which sleeps and starts its next
\* iteration; after the last exit line 100 sets the watermark.
ExitPoller_SaveExit(response, dbUp) ==
    /\ vem.pc = "exits"
    /\ LET exit == Head(vem.pending)
           r == get_validator_info(exit.message.validator_index, response)
           row == ExitPollerRow(r.info, exit, vem.slot, vem.epoch)
           raised == r.found
                     /\ SaveRaises(dbUp, VoluntaryExitConflict(voluntary_exits, row))
           rest == Tail(vem.pending)
       IN  /\ voluntary_exits' =
                 IF r.found /\ ~raised
                 THEN InsertVoluntaryExit(voluntary_exits, row)
                 ELSE voluntary_exits
           /\ vem' = IF raised
                     THEN [vem EXCEPT !.pc = "idle", !.pending = <<>>,
                                      !.asleep = TRUE]
                     ELSE IF rest = <<>>
                     THEN [vem EXCEPT
                              !.last_processed_slot =
                                  watermark_after_fetch(@, vem.slot, TRUE),
                              !.pc = "idle", !.pending = <<>>, !.asleep = TRUE]
                     ELSE [vem EXCEPT !.pending = rest]
           /\ seen' = [seen EXCEPT !.clean = @ /\ r.found /\ ~raised,
                                    !.raised = @ \/ raised]
           /\ last' = Step("exit_save", {"validators"},
                           IF r.found THEN {} ELSE {"validators"},
                           r.found => dbUp,
                           r.found /\ VoluntaryExitConflict(voluntary_exits, row),
                           raised)
    /\ UNCHANGED <<partial_withdrawals, full_exits_queue,
                   validator_withdrawal_credentials, monitorVars, cache,
                   sampler, ml, ticks>>

\* --------------------------------------------------------------- Sampler
\* Any epoch other than the last processed one (variant).
epoch_is_new_OnChange(current_epoch, last_processed_epoch) ==
    current_epoch # last_processed_epoch

\* if current_epoch > last_processed_epoch
epoch_is_new(current_epoch, last_processed_epoch) ==
    current_epoch > last_processed_epoch

\* Every epoch sampled (variant).
epoch_is_sampled_Always(current_epoch) == TRUE

\* if current_epoch % 2 == 0
epoch_is_sampled(current_epoch) == current_epoch % 2 = 0

\* One iteration of the loop of run_validator_credentials_monitor, its sleep
\* included. A raise of save_validator_credentials leaves the loop.
Sampler_Tick(head_epoch, head_slot, active_ongoing, dbUp) ==
    /\ sampler.running
    /\ ~sampler.asleep
    /\ ticks < MaxTicks
    /\ ticks' = ticks + 1
    /\ LET c == get_current_epoch_and_slot(cache)
           e == get_current_epoch(head_epoch)
           s == get_current_slot(head_slot)
           current_epoch == IF c.ok THEN c.epoch ELSE e.value
           current_slot == IF c.ok THEN c.slot ELSE s.value
           new == epoch_is_new(current_epoch, sampler.last_processed_epoch)
           got == get_validator_credentials(active_ongoing)
           row == CredentialsRow(current_epoch, current_slot,
                                 got.num_0x01, got.num_0x02)
           fetches == new /\ epoch_is_sampled(current_epoch)
           saves == fetches /\ got.ok
           raised == saves /\ SaveRaises(dbUp, CredentialsConflict(
                                     validator_withdrawal_credentials, row))
       IN  IF ~c.ok /\ (~e.ok \/ ~s.ok)
           THEN /\ sampler' = [sampler EXCEPT !.asleep = TRUE]
                /\ last' = Step("sampler_tick", {"head"}, {"head"},
                                TRUE, FALSE, FALSE)
                /\ UNCHANGED <<cache, validator_withdrawal_credentials>>
           ELSE /\ cache' = IF c.ok THEN cache
                            ELSE update_epoch_and_slot(cache, current_epoch,
                                                       current_slot)
                /\ validator_withdrawal_credentials' =
                      IF saves /\ ~raised
                      THEN InsertCredentials(validator_withdrawal_credentials, row)
                      ELSE validator_withdrawal_credentials
                /\ sampler' =
                      IF raised THEN [sampler EXCEPT !.running = FALSE]
                      ELSE [sampler EXCEPT
                               !.last_processed_epoch =
                                   IF new THEN current_epoch ELSE @,
                               !.asleep = TRUE]
                /\ last' = Step("sampler_tick",
                                (IF c.ok THEN {} ELSE {"head"})
                                \cup (IF fetches THEN {"active_ongoing"} ELSE {}),
                                IF fetches /\ ~got.ok
                                THEN {"active_ongoing"} ELSE {},
                                saves => dbUp,
                                saves /\ CredentialsConflict(
                                    validator_withdrawal_credentials, row),
                                raised)
    /\ UNCHANGED <<voluntary_exits, partial_withdrawals, full_exits_queue,
                   monitorVars, vem, seen, ml>>

\* ------------------------------------------------------- main.py's loop
\* run_voluntary_exit_monitor_loop as main() starts it: last_epoch = None.
NewMainLoop == [running |-> TRUE, asleep |-> FALSE]

\* get_current_block_data, head answering blocks/head: {'slot', 'epoch'}, or
\* None on a failed request or a body without data.message.
get_current_block_data(head) ==
    IF head.kind = "ok"
    THEN [ok |-> TRUE, keys |-> {"slot", "epoch"}, slot |-> head.data,
          epoch |-> head.data \div SLOTS_PER_EPOCH]
    ELSE [ok |-> FALSE, keys |-> {}, slot |-> 0, epoch |-> 0]

\* One iteration of the loop. With block data it reads
\* block_data['num_voluntary_exits'] (line 79), a key get_current_block_data
\* does not set: the KeyError leaves the loop through `except ...: raise`.
\* Without block data it sleeps 12 s.
MainLoop_Tick(head) ==
    /\ ml.running
    /\ ~ml.asleep
    /\ ticks < MaxTicks
    /\ ticks' = ticks + 1
    /\ LET block_data == get_current_block_data(head)
           raised == block_data.ok /\ "num_voluntary_exits" \notin block_data.keys
       IN  /\ ml' = IF ~block_data.ok THEN [ml EXCEPT !.asleep = TRUE]
                    ELSE IF raised THEN [ml EXCEPT !.running = FALSE]
                    ELSE [ml EXCEPT !.asleep = TRUE]
           /\ last' = Step("main_tick", {"head"},
                           IF block_data.ok THEN {} ELSE {"head"},
                           TRUE, FALSE, raised)
    /\ UNCHANGED <<tables, monitorVars, cache, vem, seen, sampler>>

\* ------------------------------------------------------ time and restart
\* More than _cache_duration (12 s, one slot) passes: the cache entry expires
\* and every time.sleep (12 s and longer) can have ended.
TimePasses ==
    /\ cache.fresh \/ vem.asleep \/ sampler.asleep \/ ml.asleep
    /\ cache' = [cache EXCEPT !.fresh = FALSE]
    /\ vem' = [vem EXCEPT !.asleep = FALSE]
    /\ sampler' = [sampler EXCEPT !.asleep = FALSE]
    /\ ml' = [ml EXCEPT !.asleep = FALSE]
    /\ last' = Quiet("time")
    /\ UNCHANGED <<tables, monitorVars, seen, ticks>>

\* The pollers' process is ended and started again: a new cache, a new
\* VoluntaryExitMonitor, a new ValidatorCredentialsMonitor whose
\* last_processed_epoch is read from the table, a new loop of main.py. A
\* poller whose construction raises does not enter its loop.
Pollers_Restart(missing, dbUp) ==
    /\ cache' = NewCache
    /\ ml' = [NewMainLoop EXCEPT
                 !.running = ~(\/ main_raises(missing)
                               \/ ValidatorExitMonitor_raises(missing))]
    /\ vem' = [NewExitPoller EXCEPT
                  !.pc = IF VoluntaryExitMonitor_raises(missing)
                         THEN "failed" ELSE @]
    /\ seen' = NothingSeen
    /\ sampler' = [NewSampler(validator_withdrawal_credentials, dbUp) EXCEPT
                      !.running = ~(\/ main_raises(missing)
                                    \/ ValidatorCredentialsMonitor_raises(missing))]
    /\ last' = Step("pollers_restart", {}, missing, dbUp, FALSE, missing # {})
    /\ UNCHANGED <<tables, monitorVars, ticks>>

\* ---------------------------------------------------------- input sets
V(i, k) == ValidatorData(i, k, "active_exiting")
E(i, sig) == ExitMessage(i, sig)

ExitLists ==
    {<<>>, <<E(1, "0xsigA")>>,
     <<E(1, "0xsigA"), E(2, "0xsigB")>>, <<E(1, "0xsigA"), E(1, "0xsigB")>>}

BlocksAt(slots) ==
    {NoBlockData}
    \cup {BlockData(s, FALSE, <<>>) : s \in slots}
    \cup {BlockData(s, TRUE, x) : s \in slots, x \in ExitLists}

LookupAnswers ==
    {Failed, NoData, Ok(<<>>), Ok(<<V(1, 0)>>), Ok(<<V(2, 1), V(1, 1)>>)}

ExitingAnswers ==
    {Failed, NoData, Ok(<<>>), Ok(<<V(2, 1), V(1, 0)>>)}

L(i, tx) == WithdrawalLog(Pubkey(i), tx, 1)

NoWithdrawalInputs == WithdrawalInputs(Failed, Failed, Failed, Failed, Failed)

\* ------------------------------------------------------- specifications
Started ==
    /\ voluntary_exits = <<>>
    /\ partial_withdrawals = <<>>
    /\ full_exits_queue = <<>>
    /\ validator_withdrawal_credentials = <<>>
    /\ mon \in {NewMonitor(n) : n \in BlockNumbers}
    /\ mq = NoCall
    /\ calls = 0
    /\ cache = NewCache
    /\ vem = NewExitPoller
    /\ seen = NothingSeen
    /\ sampler = NewSampler(<<>>, TRUE)
    /\ ml = NewMainLoop
    /\ ticks = 0

Init ==
    /\ Started
    /\ last = Quiet("init")

\* The reconciler alone: monitor_queue called with any block, restarts.
NextQueue ==
    \/ \E b \in BlocksAt({SLOTS_PER_EPOCH})
                  \cup {BlockData(SLOTS_PER_EPOCH + 1, TRUE, <<E(1, "0xsigA")>>)},
             v \in LookupAnswers :
          \E in \in {NoWithdrawalInputs,
                     WithdrawalInputs(Ok(1), Ok(<<L(1, "0xtx1")>>), Ok(b.slot),
                                      Ok(b.slot), Ok(<<V(1, 0)>>))} :
             MonitorQueue_Call(b, v, in)
    \/ MonitorQueue_Call(BlockData(SLOTS_PER_EPOCH, TRUE,
                                   <<E(1, "0xsigA"), E(1, "0xsigB"),
                                     E(2, "0xsigC")>>),
                         Ok(<<V(1, 0)>>), NoWithdrawalInputs)
    \/ \E dbUp \in BOOLEAN : MonitorQueue_SavePartialWithdrawal(dbUp)
    \/ \E r \in ExitingAnswers, dbUp \in BOOLEAN : MonitorQueue_Snapshot(r, dbUp)
    \/ \E dbUp \in BOOLEAN : MonitorQueue_SaveVoluntaryExit(dbUp)
    \/ \E n \in BlockNumbers : Monitor_Restart({}, n)

SpecQueue == Init /\ [][NextQueue]_vars

Heads == {Failed, NoData} \cup {Ok(s) : s \in Slots}

\* The two blocks/head answers of one sampler tick: the head does not go back
\* between them.
HeadPairs ==
    {<<he, hs>> \in Heads \X Heads :
        (he.kind = "ok" /\ hs.kind = "ok") =>
            hs.data \in {he.data, he.data + 1}}

PolledBlocks ==
    {Failed, NoData, Ok(BlockData(0, FALSE, <<>>)), Ok(BlockData(0, TRUE, <<>>)),
     Ok(BlockData(0, TRUE, <<E(1, "0xsigA")>>)),
     Ok(BlockData(0, TRUE, <<E(1, "0xsigA"), E(2, "0xsigB")>>))}

InfoAnswers == {Failed, Ok(<<V(1, 0)>>), Ok(<<V(2, 1), V(1, 1)>>)}

CredentialAnswers ==
    {Failed, Ok(<<<<0, 1, 0>>, <<0, 2, 0>>, <<0, 0, 0>>, <<>>>>)}

\* The two pollers and the cache they share.
NextPollers ==
    \/ \E b \in PolledBlocks : ExitPoller_Tick(b)
    \/ \E h \in {Failed, Ok(SLOTS_PER_EPOCH)} : MainLoop_Tick(h)
    \/ \E r \in InfoAnswers, dbUp \in BOOLEAN : ExitPoller_SaveExit(r, dbUp)
    \/ \E h \in HeadPairs, r \in CredentialAnswers, dbUp \in BOOLEAN :
          Sampler_Tick(h[1], h[2], r, dbUp)
    \/ TimePasses
    \/ \E dbUp \in BOOLEAN : Pollers_Restart({}, dbUp)

SpecPollers == Init /\ [][NextPollers]_vars

\* The whole system: the reconciler and the two pollers on the same tables.
Next ==
    \/ \E b \in {BlockData(SLOTS_PER_EPOCH, TRUE, <<>>),
                  BlockData(SLOTS_PER_EPOCH, TRUE, <<E(1, "0xsigA")>>)},
             v \in {Failed, Ok(<<V(1, 0)>>)} :
          \E in \in {NoWithdrawalInputs,
                     WithdrawalInputs(Ok(1), Ok(<<L(1, "0xtx1")>>), Ok(b.slot),
                                      Ok(b.slot), Ok(<<V(1, 0)>>))} :
             /\ calls + ticks < MaxTicks
             /\ MonitorQueue_Call(b, v, in)
    \/ \E dbUp \in BOOLEAN : MonitorQueue_SavePartialWithdrawal(dbUp)
    \/ \E r \in {Failed, Ok(<<>>)}, dbUp \in BOOLEAN : MonitorQueue_Snapshot(r, dbUp)
    \/ \E dbUp \in BOOLEAN : MonitorQueue_SaveVoluntaryExit(dbUp)
    \/ \E n \in BlockNumbers : Monitor_Restart({}, n)
    \/ \E b \in {Failed, Ok(BlockData(0, TRUE, <<E(1, "0xsigA")>>))} :
          /\ calls + ticks < MaxTicks
          /\ ExitPoller_Tick(b)
    \/ \E h \in {Failed, Ok(SLOTS_PER_EPOCH)} :
          /\ calls + ticks < MaxTicks
          /\ MainLoop_Tick(h)
    \/ \E r \in {Failed, Ok(<<V(1, 1)>>)}, dbUp \in BOOLEAN :
          ExitPoller_SaveExit(r, dbUp)
    \/ \E h \in {<<Failed, Failed>>}
                 \cup {<<Ok(s), Ok(s)>> : s \in {SLOTS_PER_EPOCH,
                                                 2 * SLOTS_PER_EPOCH}},
             r \in CredentialAnswers, dbUp \in BOOLEAN :
          /\ calls + ticks < MaxTicks
          /\ Sampler_Tick(h[1], h[2], r, dbUp)
    \/ TimePasses
    \/ \E dbUp \in BOOLEAN : Pollers_Restart({}, dbUp)

Spec == Init /\ [][Next]_vars

\* The processes started with any settings missing, each at work on one kind
\* of answer.
NextStart ==
    \/ \E missing \in SUBSET Settings, n \in BlockNumbers :
          Monitor_Restart(missing, n)
    \/ \E missing \in SUBSET Settings, dbUp \in BOOLEAN :
          Pollers_Restart(missing, dbUp)
    \/ /\ calls + ticks < MaxTicks
       /\ MonitorQueue_Call(BlockData(SLOTS_PER_EPOCH, TRUE, <<E(1, "0xsigA")>>),
                            Ok(<<V(1, 0)>>),
                            WithdrawalInputs(Ok(1), Ok(<<L(1, "0xtx1")>>),
                                             Ok(SLOTS_PER_EPOCH),
                                             Ok(SLOTS_PER_EPOCH), Ok(<<V(1, 0)>>)))
    \/ MonitorQueue_SavePartialWithdrawal(TRUE)
    \/ MonitorQueue_Snapshot(Ok(<<>>), TRUE)
    \/ MonitorQueue_SaveVoluntaryExit(TRUE)
    \/ /\ calls + ticks < MaxTicks
       /\ ExitPoller_Tick(Ok(BlockData(0, TRUE, <<E(1, "0xsigA")>>)))
    \/ ExitPoller_SaveExit(Ok(<<V(1, 1)>>), TRUE)
    \/ /\ calls + ticks < MaxTicks
       /\ MainLoop_Tick(Failed)
    \/ /\ calls + ticks < MaxTicks
       /\ Sampler_Tick(Ok(2 * SLOTS_PER_EPOCH), Ok(2 * SLOTS_PER_EPOCH),
                       Ok(<<<<0, 1, 0>>>>), TRUE)
    \/ TimePasses

SpecStart == Init /\ [][NextStart]_vars

\* -------------------------------------------------- the block fetch alone
\* The beacon node: the exit messages of the block of each slot, and its head.
\* /eth/v2/beacon/blocks/<slot> answers the block of that slot, and
\* /eth/v2/beacon/blocks/head the block of the head slot.
BlocksEndpoint(node, slot) == Ok(BlockData(slot, TRUE, node.blocks[slot]))

BlocksHead(node) == BlocksEndpoint(node, node.head)

\* ValidatorExitMonitor.get_block_by_slot(slot): requests blocks/head whatever
\* the slot; the body, None (NoBlockData) when the request raised.
get_block_by_slot(node, slot) ==
    LET response == BlocksHead(node)
    IN  IF response.kind = "ok" THEN response.data ELSE NoBlockData

\* BeaconAPI.get_block(slot): requests blocks/<slot>.
get_block(node, slot) == BlocksEndpoint(node, slot)

FetchSlots == {SLOTS_PER_EPOCH, SLOTS_PER_EPOCH + 1}

\* The nodes whose head is at or one block after the slot a tick resolved.
Nodes ==
    {[head |-> h, blocks |-> b] :
        h \in FetchSlots, b \in [FetchSlots -> ExitLists]}

\* A tick resolved head slot `slot`; by the time it fetches the body the node
\* is at node.head >= slot. The step records the slot, the node and the block
\* (for the exit poller: the exits) the fetch gave.
Fetch_get_block_by_slot(node, slot) ==
    /\ node.head >= slot
    /\ last' = [op |-> "get_block_by_slot", input |-> [node |-> node, slot |-> slot],
                output |-> get_voluntary_exits_in_block(
                               get_block_by_slot(node, slot),
                               Ok(<<V(1, 0), V(2, 0)>>)),
                slot |-> get_block_by_slot(node, slot).slot]
    /\ UNCHANGED <<tables, monitorVars, pollerVars>>

Fetch_get_voluntary_exits(node, slot) ==
    /\ node.head >= slot
    /\ last' = [op |-> "get_voluntary_exits", input |-> [node |-> node, slot |-> slot],
                output |-> get_voluntary_exits(get_block(node, slot)).exits,
                slot |-> get_block(node, slot).data.slot]
    /\ UNCHANGED <<tables, monitorVars, pollerVars>>

NextFetch ==
    \/ \E node \in Nodes, slot \in FetchSlots : Fetch_get_block_by_slot(node, slot)
    \/ \E node \in Nodes, slot \in FetchSlots : Fetch_get_voluntary_exits(node, slot)

SpecFetch == Init /\ [][NextFetch]_vars

\* ------------------------------------------------------- the cache alone
\* The SharedCache under a clock: `cache.fresh` is kept equal to
\* ~expired(time.time(), _last_update_time). `last` holds the clock, the time
\* and the arguments of the latest update, and what the latest get returned.
InitCache ==
    /\ Started
    /\ last = [op |-> "init", now |-> StartTime, last_update_time |-> 0,
               epoch |-> 0, slot |-> 0,
               output |-> get_current_epoch_and_slot(NewCache)]

Cache_Update(epoch, slot) ==
    /\ cache' = update_epoch_and_slot(cache, epoch, slot)
    /\ last' = [last EXCEPT !.op = "update", !.last_update_time = last.now,
                            !.epoch = epoch, !.slot = slot]
    /\ UNCHANGED <<tables, monitorVars, vem, seen, sampler, ml, ticks>>

Cache_Get ==
    /\ last' = [last EXCEPT !.op = "get",
                            !.output = get_current_epoch_and_slot(cache)]
    /\ UNCHANGED <<tables, monitorVars, pollerVars>>

Cache_Clock(seconds) ==
    /\ last.now + seconds <= MaxClock
    /\ cache' = [cache EXCEPT
                    !.fresh = ~expired(last.now + seconds, last.last_update_time)]
    /\ last' = [last EXCEPT !.op = "clock", !.now = last.now + seconds]
    /\ UNCHANGED <<tables, monitorVars, vem, seen, sampler, ml, ticks>>

NextCache ==
    \/ \E s \in {SLOTS_PER_EPOCH, SLOTS_PER_EPOCH + 1, 2 * SLOTS_PER_EPOCH} :
          Cache_Update(s \div SLOTS_PER_EPOCH, s)
    \/ Cache_Get
    \/ \E seconds \in {1, cache_duration} : Cache_Clock(seconds)

SpecCache == InitCache /\ [][NextCache]_vars

\* ------------------------------------------- the cache read while written
\* update_epoch_and_slot is three attribute stores (lines 20, 21, 22) and
\* get_current_epoch_and_slot a test of _last_update_time (line 14) followed by
\* two attribute loads (line 16); nothing in SharedCache orders the steps of a
\* call made while another one is in progress. `last` holds the clock, the
\* three attributes (each value with the number of the update call that stored
\* it, 0 for the None of __init__), the position of the update and of the get
\* in progress, and what the latest get returned.
NoValue == [value |-> 0, by |-> 0]

InitRace ==
    /\ Started
    /\ last = [op |-> "init", now |-> StartTime,
               current_epoch |-> NoValue, current_slot |-> NoValue,
               last_update_time |-> 0,
               update |-> [pc |-> "idle", id |-> 0, epoch |-> 0, slot |-> 0],
               get |-> [pc |-> "idle", epoch |-> NoValue],
               output |-> [ok |-> FALSE, epoch |-> NoValue, slot |-> NoValue]]

\* update_epoch_and_slot(epoch, slot) is called.
Race_Update_Call(epoch, slot) ==
    /\ last.update.pc = "idle"
    /\ last.update.id < MaxUpdates
    /\ last' = [last EXCEPT !.op = "update_call",
                            !.update = [pc |-> "epoch", id |-> @.id + 1,
                                        epoch |-> epoch, slot |-> slot]]
    /\ UNCHANGED <<tables, monitorVars, pollerVars>>

\* self._current_epoch = epoch
Race_Update_StoreEpoch ==
    /\ last.update.pc = "epoch"
    /\ last' = [last EXCEPT !.op = "update_epoch",
                            !.current_epoch = [value |-> last.update.epoch,
                                               by |-> last.update.id],
                            !.update.pc = "slot"]
    /\ UNCHANGED <<tables, monitorVars, pollerVars>>

\* self._current_slot = slot
Race_Update_StoreSlot ==
    /\ last.update.pc = "slot"
    /\ last' = [last EXCEPT !.op = "update_slot",
                            !.current_slot = [value |-> last.update.slot,
                                              by |-> last.update.id],
                            !.update.pc = "time"]
    /\ UNCHANGED <<tables, monitorVars, pollerVars>>

\* self._last_update_time = time.time(), and the call returns.
Race_Update_StoreTime ==
    /\ last.update.pc = "time"
    /\ last' = [last EXCEPT !.op = "update_time",
                            !.last_update_time = last.now,
                            !.update.pc = "idle"]
    /\ UNCHANGED <<tables, monitorVars, pollerVars>>

\* get_current_epoch_and_slot is called: the test of line 14, which returns
\* (None, None) when the entry expired.
Race_Get_Test ==
    /\ last.get.pc = "idle"
    /\ last' = IF expired(last.now, last.last_update_time)
               THEN [last EXCEPT !.op = "get_return",
                                 !.output = [ok |-> FALSE, epoch |-> NoValue,
                                             slot |-> NoValue]]
               ELSE [last EXCEPT !.op = "get_test", !.get.pc = "epoch"]
    /\ UNCHANGED <<tables, monitorVars, pollerVars>>

\* The load of self._current_epoch in line 16.
Race_Get_LoadEpoch ==
    /\ last.get.pc = "epoch"
    /\ last' = [last EXCEPT !.op = "get_epoch",
                            !.get = [pc |-> "slot", epoch |-> last.current_epoch]]
    /\ UNCHANGED <<tables, monitorVars, pollerVars>>

\* The load of self._current_slot in line 16, and the return of the pair.
Race_Get_LoadSlot ==
    /\ last.get.pc = "slot"
    /\ last' = [last EXCEPT !.op = "get_return",
                            !.get = [pc |-> "idle", epoch |-> NoValue],
                            !.output = [ok |-> TRUE, epoch |-> last.get.epoch,
                                        slot |-> last.current_slot]]
    /\ UNCHANGED <<tables, monitorVars, pollerVars>>

Race_Clock(seconds) ==
    /\ last.now + seconds <= MaxClock
    /\ last' = [last EXCEPT !.op = "clock", !.now = last.now + seconds]
    /\ UNCHANGED <<tables, monitorVars, pollerVars>>

NextRace ==
    \/ \E s \in {SLOTS_PER_EPOCH, 2 * SLOTS_PER_EPOCH} :
          Race_Update_Call(s \div SLOTS_PER_EPOCH, s)
    \/ Race_Update_StoreEpoch
    \/ Race_Update_StoreSlot
    \/ Race_Update_StoreTime
    \/ Race_Get_Test
    \/ Race_Get_LoadEpoch
    \/ Race_Get_LoadSlot
    \/ \E seconds \in {1, cache_duration} : Race_Clock(seconds)

SpecRace == InitRace /\ [][NextRace]_vars

\* -------------------------------------------------- the queue summary alone
\* get_active_exiting_validators called with one answer; the step records the
\* answer and what the function returned.
SeqsUpTo(S, n) == UNION {[1..k -> S] : k \in 0..n}

SummaryAnswers ==
    {Failed, NoData}
    \cup {Ok(vs) : vs \in SeqsUpTo({V(1, 0), V(2, 0), V(1, 1), V(2, 1), V(2, 2)},
                                   MaxValidators)}

Summarize(response) ==
    /\ last' = [op |-> "get_active_exiting_validators", input |-> response,
                output |-> get_active_exiting_validators(response)]
    /\ UNCHANGED <<tables, monitorVars, pollerVars>>

NextSummary == \E r \in SummaryAnswers : Summarize(r)

SpecSummary == Init /\ [][NextSummary]_vars

\* --------------------------------------------- the credential count alone
\* get_validator_credentials called with one answer; the step records the
\* answer and what the function returned. <<>> is a validator without the
\* withdrawal_credentials field.
Credentials == {<<0, 1, 0>>, <<0, 2, 0>>, <<0, 0, 0>>, <<1, 0, 1>>, <<>>}

CountAnswers ==
    {Failed, NoData} \cup {Ok(cs) : cs \in SeqsUpTo(Credentials, MaxValidators)}

Count(response) ==
    /\ last' = [op |-> "get_validator_credentials", input |-> response,
                output |-> get_validator_credentials(response)]
    /\ UNCHANGED <<tables, monitorVars, pollerVars>>

NextCount == \E r \in CountAnswers : Count(r)

SpecCount == Init /\ [][NextCount]_vars

\* --------------------------------------------------- the extraction alone
\* get_voluntary_exits_in_block called with one block and one answer of the
\* batch request; the step records both and the list the function returned.
ExtractBlocks ==
    {NoBlockData, BlockData(SLOTS_PER_EPOCH, FALSE, <<>>)}
    \cup {BlockData(SLOTS_PER_EPOCH, TRUE, msgs) :
             msgs \in SeqsUpTo({E(1, "0xsigA"), E(1, "0xsigB"), E(2, "0xsigC")},
                               MaxMessages)}

Extract(block_data, validators) ==
    /\ last' = [op |-> "get_voluntary_exits_in_block",
                input |-> [block_data |-> block_data, validators |-> validators],
                output |-> get_voluntary_exits_in_block(block_data, validators)]
    /\ UNCHANGED <<tables, monitorVars, pollerVars>>

NextExtract == \E b \in ExtractBlocks, v \in LookupAnswers : Extract(b, v)

SpecExtract == Init /\ [][NextExtract]_vars

\* ------------------------------------------------ the withdrawal logs alone
\* get_partial_withdrawals called on one monitor, its saves included, while
\* the execution chain is at block 1, 2 or 3 (or eth_blockNumber fails):
\* eth_getLogs fails, answers without 'result', with no log or with one log of
\* the range's last block; the head and the validator lookup fail or answer.
\* `last` holds the answer to eth_blockNumber, the requests sent and failed,
\* the range queried, the blocks of all ranges queried so far on the monitor
\* and of those whose query was answered, and the list returned.
LogAnswers(n) ==
    {Failed, NoData, Ok(<<>>)}
    \cup (IF n.kind = "ok"
          THEN {Ok(<<WithdrawalLog(Pubkey(1), "0xtx1", n.data)>>)} ELSE {})

LogInputs ==
    UNION {{WithdrawalInputs(n, logs, head, head, validators) :
               logs \in LogAnswers(n),
               head \in {Failed, Ok(SLOTS_PER_EPOCH)},
               validators \in {Failed, Ok(<<V(1, 0)>>)}} :
           n \in {Failed, Ok(1), Ok(2), Ok(3)}}

BlocksOf(range) == IF range = <<>> THEN {} ELSE range[1]..range[2]

RECURSIVE InsertAllPartialWithdrawals(_, _)
InsertAllPartialWithdrawals(table, rows) ==
    IF rows = <<>> THEN table
    ELSE InsertAllPartialWithdrawals(InsertPartialWithdrawal(table, Head(rows)),
                                     Tail(rows))

InitLogs ==
    /\ Started
    /\ last = [op |-> "init", block_number |-> Failed, requests |-> {},
               failed |-> {}, queried |-> <<>>, covered |-> {},
               answered |-> {}, raised |-> FALSE, output |-> <<>>]

\* One get_partial_withdrawals call. A save_partial_withdrawal that raises
\* (dbUp = FALSE) is caught by line 406 and the call returns [].
PartialWithdrawals_Call(in, dbUp) ==
    /\ calls < MaxCalls
    /\ calls' = calls + 1
    /\ LET found == partial_withdrawals_found(mon.last_checked_block, in)
           raised == found # <<>> /\ SaveRaises(dbUp, FALSE)
           range == logs_range(mon.last_checked_block, in)
       IN  /\ mon' = [mon EXCEPT
                         !.last_checked_block = last_checked_block_after(@, in)]
           /\ partial_withdrawals' =
                 IF raised THEN partial_withdrawals
                 ELSE InsertAllPartialWithdrawals(partial_withdrawals, found)
           /\ last' = [op |-> "get_partial_withdrawals",
                       block_number |-> in.block_number,
                       requests |-> partial_withdrawals_requests(
                                        mon.last_checked_block, in),
                       failed |-> partial_withdrawals_failures(
                                      mon.last_checked_block, in),
                       queried |-> range,
                       covered |-> last.covered \cup BlocksOf(range),
                       answered |-> last.answered
                                    \cup (IF in.logs.kind # "error"
                                          THEN BlocksOf(range) ELSE {}),
                       raised |-> raised,
                       output |-> IF raised THEN <<>> ELSE found]
    /\ UNCHANGED <<voluntary_exits, full_exits_queue,
                   validator_withdrawal_credentials, mq, pollerVars>>

NextLogs == \E in \in LogInputs, dbUp \in BOOLEAN : PartialWithdrawals_Call(in, dbUp)

SpecLogs == InitLogs /\ [][NextLogs]_vars

\* ------------------------------------------- the head at an epoch boundary
\* The slots blocks/head answers to two successive requests while the chain
\* is at the last slot of an epoch: the same slot, or the first slot of the
\* next epoch for the second request.
AdvancingHeads ==
    {<<2 * SLOTS_PER_EPOCH - 1, 2 * SLOTS_PER_EPOCH - 1>>,
     <<2 * SLOTS_PER_EPOCH - 1, 2 * SLOTS_PER_EPOCH>>,
     <<3 * SLOTS_PER_EPOCH - 1, 3 * SLOTS_PER_EPOCH>>}

\* The reconciler and the two pollers, every database call going through,
\* with the head answered as above.
NextHead ==
    \/ \E h \in AdvancingHeads :
          MonitorQueue_Call(BlockData(h[1], TRUE, <<E(1, "0xsigA")>>),
                            Ok(<<V(1, 0)>>),
                            WithdrawalInputs(Ok(1), Ok(<<L(1, "0xtx1")>>),
                                             Ok(h[1]), Ok(h[2]), Ok(<<V(1, 0)>>)))
    \/ MonitorQueue_SavePartialWithdrawal(TRUE)
    \/ \E r \in {Failed, Ok(<<>>)} : MonitorQueue_Snapshot(r, TRUE)
    \/ MonitorQueue_SaveVoluntaryExit(TRUE)
    \/ \E b \in {Ok(BlockData(0, FALSE, <<>>)),
                  Ok(BlockData(0, TRUE, <<E(2, "0xsigB")>>))} : ExitPoller_Tick(b)
    \/ ExitPoller_SaveExit(Ok(<<V(2, 1)>>), TRUE)
    \/ \E h \in AdvancingHeads, r \in CredentialAnswers :
          Sampler_Tick(Ok(h[1]), Ok(h[2]), r, TRUE)
    \/ TimePasses

SpecHead == Init /\ [][NextHead]_vars

\* =============================================================== properties
\* The rows of a voluntary_exits table that carry the key of exit record r.
RowsOfExit(table, r) ==
    {i \in DOMAIN table : /\ table[i].validator_index = r.validator_index
                          /\ table[i].signature = r.signature}

\* C1. save_voluntary_exit is idempotent: after a call that returned, the table
\* holds exactly one row with the record's (validator_index, signature), and a
\* call for a key that was stored already, whatever its slot and epoch, leaves
\* the table as the earlier call left it.
C1_SaveVoluntaryExitIdempotent ==
    [][(last'.op = "save_voluntary_exit" /\ ~last'.raised) =>
          LET r == Head(mq.voluntary_exits)
          IN  /\ Cardinality(RowsOfExit(voluntary_exits', r)) = 1
              /\ RowsOfExit(voluntary_exits, r) # {} =>
                     voluntary_exits' = voluntary_exits]_vars

\* The second save of a stored key returned, and the row stored is the one of
\* the first save.
C1_Witness ==
    /\ last.op = "save_voluntary_exit"
    /\ last.conflict
    /\ ~last.raised
    /\ Len(voluntary_exits) = 1

KeysUnique(table, key(_)) ==
    \A i, j \in DOMAIN table : key(table[i]) = key(table[j]) => i = j

\* C2. In every reachable state voluntary_exits holds at most one row per
\* (validator_index, signature), partial_withdrawals at most one row per
\* transaction_hash and validator_withdrawal_credentials at most one row per
\* epoch.
C2_NaturalKeysUnique ==
    /\ KeysUnique(voluntary_exits,
                  LAMBDA r : <<r.validator_index, r.signature>>)
    /\ KeysUnique(partial_withdrawals, LAMBDA r : r.transaction_hash)
    /\ KeysUnique(validator_withdrawal_credentials, LAMBDA r : r.epoch)

\* After a restart whose MAX(epoch) query failed the sampler saved an epoch
\* that was stored already.
C2_Witness ==
    /\ last.op = "sampler_tick"
    /\ last.conflict
    /\ ~last.raised
    /\ validator_withdrawal_credentials # <<>>

\* C3. A save_voluntary_exit, save_partial_withdrawal or
\* save_validator_credentials whose INSERT meets a stored row with its natural
\* key returns without raising and leaves every table, the stored row
\* included, as it was.
C3_ConflictAbsorbed ==
    [][(/\ last'.op \in {"save_voluntary_exit", "exit_save",
                         "save_partial_withdrawal", "sampler_tick"}
        /\ last'.conflict
        /\ last'.dbUp) =>
          (~last'.raised /\ tables' = tables)]_vars

\* A restarted reconciler read the log of a stored withdrawal again and saved
\* it: the save returned and the one stored row stands.
C3_Witness ==
    /\ last.op = "save_partial_withdrawal"
    /\ last.conflict
    /\ last.dbUp
    /\ ~last.raised
    /\ Len(partial_withdrawals) = 1

\* C4. After any number of completed exit-poller ticks whose head slots were
\* strictly increasing and whose fetches and saves all went through,
\* last_processed_slot is the highest head slot read and no slot was fetched
\* twice.
C4_MonotonicWatermark ==
    (vem.pc = "idle" /\ seen.any /\ seen.increasing /\ seen.clean) =>
        (vem.last_processed_slot = seen.highest /\ ~seen.twice)

\* Two ticks read rising head slots of epoch 1 and later, every fetch went
\* through, and the watermark is the higher slot.
C4_Witness ==
    /\ vem.pc = "idle"
    /\ seen.increasing
    /\ seen.clean
    /\ Cardinality(seen.fetched) = 2
    /\ vem.last_processed_slot = seen.highest

\* C5. An exit-poller tick that reads from the cache a head slot no greater
\* than last_processed_slot fetches no block, looks up no validator, writes no
\* row to any table and leaves last_processed_slot as it was.
C5_DuplicateTickSkipped ==
    [][(/\ last'.op = "exit_tick"
        /\ cache_get(cache).ok
        /\ cache_get(cache).slot <= vem.last_processed_slot) =>
          /\ last'.requests = {}
          /\ tables' = tables
          /\ vem'.pc = "idle"
          /\ vem'.last_processed_slot = vem.last_processed_slot]_vars

\* A tick read the slot it had processed before and skipped it.
C5_Witness ==
    /\ last.op = "exit_tick"
    /\ last.requests = {}
    /\ ~cache_unavailable(cache_get(cache))
    /\ vem.last_processed_slot > 0
    /\ cache_get(cache).slot = vem.last_processed_slot

\* C6. last_processed_slot is never the slot of a monitor_queue call that still
\* has a voluntary exit of that slot to persist.
C6_WatermarkAfterPersist ==
    ~(/\ mq.pc = "exits"
      /\ mon.has_last_processed_slot
      /\ mon.last_processed_slot = mq.slot)

\* C7. An exit-poller tick whose block fetch failed leaves last_processed_slot
\* as it was.
C7_FailedFetchKeepsWatermark ==
    [][(last'.op = "exit_tick" /\ "block" \in last'.failed) =>
          vem'.last_processed_slot = vem.last_processed_slot]_vars

\* C8. The first monitor_queue call on an instance that gets through its
\* snapshot step without raising has written exactly one full_exits_queue row.
C8_FirstCallWritesBaseline ==
    [][(last'.op = "snapshot" /\ mon.calls = 1 /\ ~last'.raised) =>
          Len(full_exits_queue') = Len(full_exits_queue) + 1]_vars

\* C9 as stated. A monitor_queue call that is not the first on its instance and
\* whose block holds no voluntary-exit message leaves full_exits_queue as it
\* was and does not fetch the active_exiting validators.
C9_EmptyExitNonFirstCall ==
    [][(last'.op = "snapshot" /\ mon.calls >= 2 /\ mq.messages = 0) =>
          /\ full_exits_queue' = full_exits_queue
          /\ "active_exiting" \notin last'.requests]_vars

\* C9 amended. A monitor_queue call made when an earlier call on the instance
\* has set last_processed_slot, and whose block holds no voluntary-exit
\* message, leaves full_exits_queue as it was and does not fetch the
\* active_exiting validators; the steps of a call other than the snapshot step
\* never do either.
C9_EmptyExitAfterWatermark ==
    [][/\ (/\ last'.op = "snapshot"
           /\ mon.has_last_processed_slot
           /\ mq.messages = 0) =>
             /\ full_exits_queue' = full_exits_queue
             /\ "active_exiting" \notin last'.requests
       /\ last'.op \in {"monitor_queue", "save_partial_withdrawal",
                        "save_voluntary_exit"} =>
             /\ full_exits_queue' = full_exits_queue
             /\ "active_exiting" \notin last'.requests]_vars

\* The second call on an instance, its block without exit messages, ended
\* with its snapshot step, which fetched nothing.
C9_Witness ==
    /\ last.op = "snapshot"
    /\ last.requests = {}
    /\ mon.calls >= 2
    /\ mq.pc = "idle"
    /\ mq.messages = 0
    /\ full_exits_queue # <<>>

\* C10. A monitor_queue call whose block holds at least one voluntary-exit
\* message, whose requests all went through and whose snapshot step did not
\* raise, has persisted one full_exits_queue row, joined or not.
C10_SnapshotOnExitMessages ==
    [][(/\ last'.op = "snapshot"
        /\ mq.messages >= 1
        /\ mq.failed = {}
        /\ last'.failed = {}
        /\ ~last'.raised) =>
          Len(full_exits_queue') = Len(full_exits_queue) + 1]_vars

\* C11. A monitor_queue call in which an upstream fetch failed (the batch
\* validator lookup, eth_getLogs, the head-slot lookup, the lookup by address,
\* the active_exiting fetch) raises, and no step of it writes a row once such
\* a fetch has failed.
C11_AllOrNothing ==
    [][LET failed == (mq.failed \cup last'.failed) \ {"eth_blockNumber"}
       IN  /\ (/\ last'.op \in {"save_partial_withdrawal", "snapshot",
                                 "save_voluntary_exit"}
               /\ tables' # tables) =>
                 failed = {}
           /\ (last'.op = "snapshot" /\ failed # {}) => last'.raised]_vars

\* C12. Within one monitor_queue call no voluntary_exits row is written after
\* a partial_withdrawals or full_exits_queue row of the call, and no
\* partial_withdrawals row after its full_exits_queue row.
C12_ExitsWithdrawalsSnapshot ==
    [][/\ (/\ last'.op = "save_voluntary_exit"
           /\ voluntary_exits' # voluntary_exits) =>
             mq.written = {}
       /\ (/\ last'.op = "save_partial_withdrawal"
           /\ partial_withdrawals' # partial_withdrawals) =>
             "full_exits_queue" \notin mq.written]_vars

\* The step just taken was get_active_exiting_validators on an answer with data.
Summarized ==
    /\ last.op = "get_active_exiting_validators"
    /\ last.input.kind = "ok"

\* C13. On an answer with zero validators get_active_exiting_validators
\* returns a summary, not None: validators_in_queue 0, the four epoch fields
\* 0, both validator indices 0, both pubkeys '' and balance_in_queue 0.
C13_EmptySummary ==
    (Summarized /\ last.input.data = <<>>) =>
        /\ last.output.ok
        /\ last.output.validators_in_queue = 0
        /\ last.output.earliest_exit_epoch = 0
        /\ last.output.earliest_withdrawable_epoch = 0
        /\ last.output.latest_exit_epoch = 0
        /\ last.output.lastest_withdrawable_epoch = 0
        /\ last.output.first_validator_index = 0
        /\ last.output.last_validator_index = 0
        /\ last.output.first_validator_pubkey = ""
        /\ last.output.last_validator_pubkey = ""
        /\ last.output.balance_in_queue = 0

\* The function was called on the empty list and returned a summary.
C13_Witness == Summarized /\ last.input.data = <<>> /\ last.output.ok

RECURSIVE SumOver(_, _)
SumOver(f(_), S) ==
    IF S = {} THEN 0
    ELSE LET x == CHOOSE y \in S : TRUE IN f(x) + SumOver(f, S \ {x})

\* C14. On a non-empty answer V: validators_in_queue = |V|, balance_in_queue
\* the sum of the balances, earliest_exit_epoch / latest_exit_epoch the least /
\* greatest exit_epoch in V, and the first / last index, pubkey and
\* withdrawable epoch those of one validator of V with that exit_epoch.
C14_Summary ==
    (Summarized /\ last.input.data # <<>>) =>
        LET vs == last.input.data
            out == last.output
            epochs == {vs[i].validator.exit_epoch : i \in DOMAIN vs}
        IN  /\ out.ok
            /\ out.validators_in_queue = Len(vs)
            /\ out.balance_in_queue = SumOver(LAMBDA i : vs[i].balance, DOMAIN vs)
            /\ out.earliest_exit_epoch \in epochs
            /\ out.latest_exit_epoch \in epochs
            /\ \A e \in epochs : out.earliest_exit_epoch <= e
                                  /\ e <= out.latest_exit_epoch
            /\ \E i \in DOMAIN vs :
                  /\ vs[i].validator.exit_epoch = out.earliest_exit_epoch
                  /\ vs[i].index = out.first_validator_index
                  /\ vs[i].validator.pubkey = out.first_validator_pubkey
                  /\ vs[i].validator.withdrawable_epoch =
                        out.earliest_withdrawable_epoch
            /\ \E i \in DOMAIN vs :
                  /\ vs[i].validator.exit_epoch = out.latest_exit_epoch
                  /\ vs[i].index = out.last_validator_index
                  /\ vs[i].validator.pubkey = out.last_validator_pubkey
                  /\ vs[i].validator.withdrawable_epoch =
                        out.lastest_withdrawable_epoch

\* An answer of three validators that starts with neither the earliest nor
\* the latest exit_epoch.
C14_Witness ==
    /\ Summarized
    /\ Len(last.input.data) = 3
    /\ last.input.data[1].validator.exit_epoch > last.output.earliest_exit_epoch
    /\ last.input.data[1].validator.exit_epoch < last.output.latest_exit_epoch
    /\ last.output.balance_in_queue = 32 + 31 + 30

\* The step just taken was get_validator_credentials on an answer with data.
Counted ==
    /\ last.op = "get_validator_credentials"
    /\ last.input.kind = "ok"

\* C15. num_0x01 is the number of sampled validators whose credentials start
\* with 0x01, num_0x02 the number of those that start with 0x02; a validator
\* with another prefix or without the field is in neither, so the two counts
\* add up to no more than the validators sampled.
C15_ExclusiveClassification ==
    Counted =>
        LET cs == last.input.data
            type1 == {i \in DOMAIN cs :
                         Len(cs[i]) >= 2 /\ cs[i][1] = 0 /\ cs[i][2] = 1}
            type2 == {i \in DOMAIN cs :
                         Len(cs[i]) >= 2 /\ cs[i][1] = 0 /\ cs[i][2] = 2}
        IN  /\ last.output.ok
            /\ last.output.num_0x01 = Cardinality(type1)
            /\ last.output.num_0x02 = Cardinality(type2)
            /\ type1 \cap type2 = {}
            /\ last.output.num_0x01 + last.output.num_0x02 <= Len(cs)

\* A sample of one 0x01, one 0x02 and one validator without the field.
C15_Witness ==
    /\ Counted
    /\ last.input.data = <<<<0, 1, 0>>, <<>>, <<0, 2, 0>>>>
    /\ last.output.num_0x01 = 1
    /\ last.output.num_0x02 = 1

\* The epoch a sampler tick worked on is the one the cache holds after it: the
\* tick either read it from the cache or stored it there.
SampledEpochOdd(c) == c.fresh /\ c.set /\ c.epoch % 2 = 1

\* C16. A sampler tick whose current epoch is odd does not fetch the
\* active_ongoing validators and writes no validator_withdrawal_credentials
\* row, and every row of that table has an even epoch.
C16_OddEpochSkipped ==
    [][/\ (last'.op = "sampler_tick" /\ SampledEpochOdd(cache')) =>
             /\ "active_ongoing" \notin last'.requests
             /\ validator_withdrawal_credentials' =
                   validator_withdrawal_credentials
       /\ \A i \in DOMAIN validator_withdrawal_credentials' :
             validator_withdrawal_credentials'[i].epoch % 2 = 0]_vars

\* A tick took the odd epoch as processed without a fetch.
C16_Witness ==
    /\ last.op = "sampler_tick"
    /\ SampledEpochOdd(cache)
    /\ sampler.last_processed_epoch = cache.epoch
    /\ "active_ongoing" \notin last.requests

\* C17. A sampler tick whose active_ongoing fetch failed writes no row and
\* leaves last_processed_epoch as it was.
C17_FailedSampleKeepsWatermark ==
    [][(last'.op = "sampler_tick" /\ "active_ongoing" \in last'.failed) =>
          /\ validator_withdrawal_credentials' =
                validator_withdrawal_credentials
          /\ sampler'.last_processed_epoch = sampler.last_processed_epoch]_vars

\* C18. The exit polling loop started by main() goes on after each of its
\* ticks: a tick leaves the loop running, ready for its next tick once its
\* sleep is over, whatever the credential sampler does.
C18_ExitLoopKeepsTicking ==
    [][last'.op = "main_tick" => (ml'.running /\ ~last'.raised)]_vars

\* A tick of the loop received the head block and the loop is over, while the
\* sampler has not moved.
C18_LoopEnded ==
    /\ last.op = "main_tick"
    /\ last.failed = {}
    /\ ~ml.running
    /\ sampler.running
    /\ ~sampler.asleep

\* C19. A raise inside the exit-polling loop ends the loop: once a Store
\* write of the loop has raised, the loop performs no further tick until the
\* process is started again.
C19_RaiseEndsExitLoop ==
    [][seen.raised => last'.op # "exit_tick"]_vars

\* The loop ticked after save_voluntary_exit had raised in it.
C19_TickAfterRaise ==
    /\ seen.raised
    /\ last.op = "exit_tick"

\* C20. A call of monitor_queue for a block at slot s with one voluntary-exit
\* message whose batch lookup returned the validator, not stored before, ends
\* with exactly one voluntary_exits row for it, carrying the lookup's
\* exit_epoch, withdrawable_epoch, balance, effective_balance and pubkey, the
\* message's signature, slot = s and epoch = s div 32, and with a
\* full_exits_queue row of slot = s and epoch = s div 32 written by the call.
C20_EndToEndEnrichment ==
    [][(/\ last'.op = "save_voluntary_exit"
        /\ ~last'.raised
        /\ ~last'.conflict
        /\ mq.messages = 1
        /\ Len(mq.voluntary_exits) = 1) =>
          LET v == Head(mq.voluntary_exits)
              rows == RowsOfExit(voluntary_exits', v)
          IN  /\ Cardinality(rows) = 1
              /\ \A i \in rows :
                    /\ voluntary_exits'[i].pubkey = Pubkey(v.validator_index)
                    /\ voluntary_exits'[i].effective_balance = 32
                    /\ \E k \in 0..1 :
                          /\ voluntary_exits'[i].exit_epoch = 10 + k
                          /\ voluntary_exits'[i].withdrawable_epoch =
                                10 + k + EXIT_DELAY
                          /\ voluntary_exits'[i].balance = 32 - k
                    /\ voluntary_exits'[i].signature = "0xsigA"
                    /\ voluntary_exits'[i].slot = mq.slot
                    /\ voluntary_exits'[i].epoch = mq.slot \div 32
              /\ "full_exits_queue" \in mq.written
              /\ \E j \in DOMAIN full_exits_queue' :
                    /\ full_exits_queue'[j].slot = mq.slot
                    /\ full_exits_queue'[j].epoch = mq.slot \div 32]_vars

\* A call stored the exit of its block and returned, and full_exits_queue
\* holds no row of the block's slot.
C20_ExitWithoutSnapshot ==
    /\ last.op = "save_voluntary_exit"
    /\ ~last.raised
    /\ mq.messages = 1
    /\ Len(voluntary_exits) = 1
    /\ \A j \in DOMAIN full_exits_queue :
          full_exits_queue[j].slot # voluntary_exits[1].slot

\* Whether voluntary_exits holds a row of the message <<validator_index,
\* signature>>.
Stored(table, key) ==
    \E i \in DOMAIN table :
        table[i].validator_index = key[1] /\ table[i].signature = key[2]

\* C21. When the batch response omits the validator of some exit message of a
\* block: no row is saved for that message, the call raises only when the
\* database does, and when it returns every message of the block whose
\* validator the response held is stored.
C21_MissingValidatorDropped ==
    [][(mq.omitted # {} /\ last'.op \in {"snapshot", "save_voluntary_exit"}) =>
          /\ last'.raised => ~last'.dbUp
          /\ last'.op = "save_voluntary_exit" =>
                <<Head(mq.voluntary_exits).validator_index,
                  Head(mq.voluntary_exits).signature>> \notin mq.omitted
          /\ (mq'.pc = "idle" /\ ~last'.raised) =>
                \A key \in mq.present : Stored(voluntary_exits', key)]_vars

\* A call returned after the response had omitted the validator of one message
\* and held the validator of two others, with only one row stored.
C21_PresentNotStored ==
    /\ last.op = "save_voluntary_exit"
    /\ ~last.raised
    /\ mq.pc = "idle"
    /\ mq.messages = 3
    /\ Len(voluntary_exits) = 1

\* C22. get_current_epoch_and_slot returns (None, None) before any update and
\* when more than 12 seconds passed since the last update_epoch_and_slot; at an
\* age of 12 seconds or less it returns the (epoch, slot) of the latest update.
C22_CacheTimeToLive ==
    [][last'.op = "get" =>
          IF ~cache.set \/ last.now - last.last_update_time > 12
          THEN ~last'.output.ok
          ELSE last'.output = [ok |-> TRUE, epoch |-> last.epoch,
                               slot |-> last.slot]]_vars

\* A get at the age of exactly 12 seconds returned the updated pair.
C22_Witness ==
    /\ last.op = "get"
    /\ cache.set
    /\ last.now - last.last_update_time = 12
    /\ last.output = [ok |-> TRUE, epoch |-> 2, slot |-> 64]

\* C23. A tick of either poller that finds no fresh pair in the cache asks the
\* beacon API for the head in that tick and, when the head is answered, leaves
\* the cache holding a fresh pair.
C23_CacheMissFallsBack ==
    [][(/\ last'.op \in {"exit_tick", "sampler_tick"}
        /\ ~get_current_epoch_and_slot(cache).ok) =>
          /\ "head" \in last'.requests
          /\ "head" \notin last'.failed =>
                get_current_epoch_and_slot(cache').ok]_vars

\* The exit poller ended a tick on a cache miss without any request.
C23_TickSkippedOnMiss ==
    /\ last.op = "exit_tick"
    /\ last.requests = {}
    /\ ~get_current_epoch_and_slot(cache).ok
    /\ vem.asleep

\* The step just taken is work of the reconciler's process.
ReconcilerWorked ==
    last.op \in {"monitor_queue", "save_partial_withdrawal", "snapshot",
                 "save_voluntary_exit"}

C25_FetchedBySlot ==
    last.op \in {"get_block_by_slot", "get_voluntary_exits"} =>
        last.slot = last.input.slot

\* get_block_by_slot was asked for a slot and gave the block of the next one,
\* whose exit messages differ.
C25_HeadFetched ==
    /\ last.op = "get_block_by_slot"
    /\ last.slot = last.input.slot + 1
    /\ last.input.node.blocks[last.input.slot] = <<E(1, "0xsigA")>>
    /\ last.input.node.blocks[last.slot] = <<>>
    /\ last.output = <<>>

\* C26. The reconciliation of one block sends one validator-state request,
\* however many exit messages the block holds: monitor_queue sends it for every
\* block with a message, and a tick of the exit poller that has sent one sends
\* no second one.
C26_OneValidatorRequest ==
    [][/\ (last'.op = "monitor_queue" /\ mq'.messages >= 1) =>
             "validators" \in last'.requests
       /\ (last'.op = "exit_save" /\ "validators" \in last'.requests) =>
             ~(last.op = "exit_save" /\ "validators" \in last.requests)]_vars

\* One tick of the exit poller stored the two exits of its block, each after a
\* validator-state request of its own.
C26_RequestPerExit ==
    /\ last.op = "exit_save"
    /\ "validators" \in last.requests
    /\ vem.pc = "idle"
    /\ Len(voluntary_exits) = 2
    /\ voluntary_exits[1].slot = voluntary_exits[2].slot

\* The step just taken was get_voluntary_exits_in_block on a block with exit
\* messages and an answered batch request.
Extracted ==
    /\ last.op = "get_voluntary_exits_in_block"
    /\ BatchLookupSent(last.input.block_data)
    /\ last.input.validators.kind = "ok"

\* C27. For every exit message of the block whose validator the batch response
\* holds, the list get_voluntary_exits_in_block returns has an entry of that
\* validator with the message's signature.
C27_EveryMessageJoined ==
    Extracted =>
        \A key \in MessagesOf(last.input.block_data, last.input.validators, TRUE) :
            \E i \in DOMAIN last.output :
                /\ last.output[i].validator_index = key[1]
                /\ last.output[i].signature = key[2]

\* Two messages of validator 1 with two signatures gave one record, with the
\* later signature.
C27_EarlierMessageLost ==
    /\ Extracted
    /\ last.input.block_data.voluntary_exits = <<E(1, "0xsigA"), E(1, "0xsigB")>>
    /\ Len(last.input.validators.data) = 1
    /\ Len(last.output) = 1
    /\ last.output[1].signature = "0xsigB"

\* C28. Of several validators with the least exit_epoch the summary's first
\* validator is the one earliest in the answer; of several with the greatest
\* exit_epoch its last validator is the one latest in the answer.
C28_TieBreakInputOrder ==
    (Summarized /\ last.input.data # <<>>) =>
        LET vs == last.input.data
            least == {i \in DOMAIN vs : \A j \in DOMAIN vs :
                        vs[i].validator.exit_epoch <= vs[j].validator.exit_epoch}
            greatest == {i \in DOMAIN vs : \A j \in DOMAIN vs :
                           vs[i].validator.exit_epoch >= vs[j].validator.exit_epoch}
            f == CHOOSE i \in least : \A j \in least : i <= j
            l == CHOOSE i \in greatest : \A j \in greatest : i >= j
        IN  /\ last.output.first_validator_index = vs[f].index
            /\ last.output.first_validator_pubkey = vs[f].validator.pubkey
            /\ last.output.last_validator_index = vs[l].index
            /\ last.output.last_validator_pubkey = vs[l].validator.pubkey

\* Validators 2 and 1, in this order, share the exit_epoch, which is both the
\* least and the greatest: the summary names 2 first and 1 last.
C28_Witness ==
    /\ Summarized
    /\ last.input.data = <<V(2, 0), V(1, 0)>>
    /\ last.output.first_validator_index = 2
    /\ last.output.last_validator_index = 1

\* C29. A block without body.voluntary_exits is an empty success: both
\* extractions return the empty list for it, and the tick of the exit poller
\* that fetched it writes no row, fails nothing and ends with
\* last_processed_slot at the slot of the tick.
C29_AbsentFieldIsEmptySuccess ==
    [][(last'.op = "exit_tick" /\ seen'.absent) =>
          /\ get_voluntary_exits(Ok(BlockData(cache.slot, FALSE, <<>>)))
                = [ok |-> TRUE, exits |-> <<>>]
          /\ \A v \in LookupAnswers :
                get_voluntary_exits_in_block(
                    BlockData(cache.slot, FALSE, <<>>), v) = <<>>
          /\ tables' = tables
          /\ last'.failed = {}
          /\ ~last'.raised
          /\ vem'.pc = "idle"
          /\ vem'.last_processed_slot = cache.slot]_vars

\* The exit poller fetched a block without the field and its watermark moved
\* to the slot of the tick.
C29_Witness ==
    /\ last.op = "exit_tick"
    /\ seen.absent
    /\ vem.last_processed_slot = cache.slot
    /\ vem.last_processed_slot > 0
    /\ voluntary_exits = <<>>

\* The rows of `before` are the first rows of `after`, unchanged.
KeptRows(before, after) ==
    /\ Len(before) <= Len(after)
    /\ \A i \in DOMAIN before : after[i] = before[i]

\* C30. A head slot or epoch below the watermark is harmless: within one
\* lifetime of the pollers last_processed_slot and last_processed_epoch never
\* decrease and no stored row is deleted or changed, and a tick that observes a
\* slot (an epoch) below the watermark writes nothing and leaves its poller
\* running, asleep until its next tick.
C30_RegressionHarmless ==
    [][/\ last'.op # "pollers_restart" =>
             /\ vem'.last_processed_slot >= vem.last_processed_slot
             /\ sampler'.last_processed_epoch >= sampler.last_processed_epoch
       /\ KeptRows(voluntary_exits, voluntary_exits')
       /\ KeptRows(partial_withdrawals, partial_withdrawals')
       /\ KeptRows(full_exits_queue, full_exits_queue')
       /\ KeptRows(validator_withdrawal_credentials,
                   validator_withdrawal_credentials')
       /\ (/\ last'.op = "exit_tick"
           /\ cache_get(cache).ok
           /\ cache_get(cache).slot < vem.last_processed_slot) =>
             /\ tables' = tables
             /\ vem'.pc = "idle" /\ vem'.asleep
       /\ (/\ last'.op = "sampler_tick"
           /\ get_current_epoch_and_slot(cache').ok
           /\ cache'.epoch < sampler.last_processed_epoch) =>
             /\ tables' = tables
             /\ sampler'.running /\ sampler'.asleep]_vars

\* The exit poller read a slot below its watermark, after the sampler had read
\* an epoch below its own.
C30_Witness ==
    /\ last.op = "exit_tick"
    /\ cache_get(cache).ok
    /\ cache.slot < vem.last_processed_slot
    /\ cache.epoch < sampler.last_processed_epoch
    /\ vem.asleep

\* The natural keys stored in a table.
StoredKeys(table, key(_)) == {key(table[i]) : i \in DOMAIN table}

\* C31. Persisted records are immutable: no step of the reconciler, of a
\* poller or of a restart changes a field of a stored voluntary_exits or
\* partial_withdrawals row or removes the row, and the natural keys stored in
\* the two tables only grow.
C31_RecordsImmutable ==
    [][/\ KeptRows(voluntary_exits, voluntary_exits')
       /\ KeptRows(partial_withdrawals, partial_withdrawals')
       /\ StoredKeys(voluntary_exits,
                     LAMBDA r : <<r.validator_index, r.signature>>)
             \subseteq StoredKeys(voluntary_exits',
                                  LAMBDA r : <<r.validator_index, r.signature>>)
       /\ StoredKeys(partial_withdrawals, LAMBDA r : r.transaction_hash)
             \subseteq StoredKeys(partial_withdrawals',
                                  LAMBDA r : r.transaction_hash)]_vars

\* The exit poller observed again, with a lower balance, the exit the
\* reconciler had stored: its save returned and the stored row keeps the
\* balance and the slot of the first observation.
C31_Witness ==
    /\ last.op = "exit_save"
    /\ last.conflict
    /\ ~last.raised
    /\ Len(voluntary_exits) = 1
    /\ voluntary_exits[1].balance = 32
    /\ voluntary_exits[1].slot = SLOTS_PER_EPOCH
    /\ vem.slot # SLOTS_PER_EPOCH

\* C32. The exit-queue snapshots are an append-only series: a snapshot step
\* whose save_full_exits_queue call returned has added exactly one row after
\* the stored ones, also when a row of its slot and epoch was stored already,
\* and no step changes or removes a stored row.
C32_SnapshotsAppendOnly ==
    [][/\ KeptRows(full_exits_queue, full_exits_queue')
       /\ (/\ last'.op = "snapshot"
           /\ "active_exiting" \in last'.requests
           /\ "active_exiting" \notin last'.failed
           /\ ~last'.raised) =>
             /\ Len(full_exits_queue') = Len(full_exits_queue) + 1
             /\ full_exits_queue'[Len(full_exits_queue')].slot = mq.slot
             /\ full_exits_queue'[Len(full_exits_queue')].epoch =
                   mq.slot \div SLOTS_PER_EPOCH]_vars

\* Two calls on one instance, the first one its first run and the second one
\* with an exit, both for the block of slot 32: two rows of that slot and epoch.
C32_Witness ==
    /\ last.op = "snapshot"
    /\ mon.calls = 2
    /\ Len(full_exits_queue) = 2
    /\ full_exits_queue[1].slot = full_exits_queue[2].slot
    /\ full_exits_queue[1].epoch = full_exits_queue[2].epoch

\* Every row of the table has epoch = slot div 32.
PointersConsistent(table) ==
    \A i \in DOMAIN table : table[i].epoch = table[i].slot \div SLOTS_PER_EPOCH

\* C33. Every (epoch, slot) pair held by the shared cache or written into a
\* row of validator_withdrawal_credentials, partial_withdrawals,
\* voluntary_exits or full_exits_queue has epoch = slot div 32, also when the
\* head advances between the requests of a tick.
C33_BlockPointerConsistent ==
    /\ cache.set => cache.epoch = cache.slot \div SLOTS_PER_EPOCH
    /\ PointersConsistent(validator_withdrawal_credentials)
    /\ PointersConsistent(partial_withdrawals)
    /\ PointersConsistent(voluntary_exits)
    /\ PointersConsistent(full_exits_queue)

\* The head moved on between the two blocks/head requests of
\* get_partial_withdrawals and between those of a sampler tick: a
\* partial_withdrawals row of slot 63 has epoch 2, and a
\* validator_withdrawal_credentials row of epoch 2 has slot 96.
C33_TornPairStored ==
    /\ \E i \in DOMAIN partial_withdrawals :
          /\ partial_withdrawals[i].slot = 2 * SLOTS_PER_EPOCH - 1
          /\ partial_withdrawals[i].epoch = 2
    /\ \E i \in DOMAIN validator_withdrawal_credentials :
          /\ validator_withdrawal_credentials[i].epoch = 2
          /\ validator_withdrawal_credentials[i].slot = 3 * SLOTS_PER_EPOCH
    /\ cache.set
    /\ cache.epoch = 2
    /\ cache.slot = 3 * SLOTS_PER_EPOCH

\* C34. No torn cache reads: a get_current_epoch_and_slot call that ran while
\* an update_epoch_and_slot call was in progress returns (None, None) or an
\* epoch and a slot stored by the same update call.
C34_NoTornReads ==
    (last.op = "get_return" /\ last.output.ok) =>
        last.output.epoch.by = last.output.slot.by

\* A get returned the epoch of the second update (epoch 2) with the slot of
\* the first (slot 32).
C34_TornRead ==
    /\ last.op = "get_return"
    /\ last.output.ok
    /\ last.output.epoch = [value |-> 2, by |-> 2]
    /\ last.output.slot = [value |-> SLOTS_PER_EPOCH, by |-> 1]

\* C35. A single cache writer per refresh: while the cache holds a pair that
\* one poller stored and that has not expired, a tick of a polling loop (the
\* slot loop of voluntary_exit_monitor.py, the loop main() starts, the
\* sampler) asks the beacon API for no head and leaves the cache as it is.
C35_SingleWriterPerRefresh ==
    [][(/\ last'.op \in {"exit_tick", "main_tick", "sampler_tick"}
        /\ get_current_epoch_and_slot(cache).ok) =>
          /\ "head" \notin last'.requests
          /\ cache' = cache]_vars

\* The sampler refreshed the cache and, before the pair expired, the loop
\* started by main() asked for the head again.
C35_SecondLookup ==
    /\ last.op = "main_tick"
    /\ "head" \in last.requests
    /\ get_current_epoch_and_slot(cache).ok
    /\ sampler.asleep

\* C36. No backfill: a tick of the exit poller fetches and reconciles only the
\* head slot it read, and never a slot below a head the loop has read since
\* its process started: the slots between an earlier watermark and an earlier
\* head stay unfetched, and so does every slot below the first head read
\* after a restart.
C36_NoBackfill ==
    [][/\ (last'.op = "exit_tick" /\ "block" \in last'.requests) =>
             /\ seen'.fetched = seen.fetched \cup {cache_get(cache).slot}
             /\ cache_get(cache).slot >= seen.highest
       /\ (last'.op = "exit_save" /\ voluntary_exits' # voluntary_exits) =>
             /\ voluntary_exits'[Len(voluntary_exits')].slot = vem.slot
             /\ vem.slot \in seen.fetched]_vars

\* After a save of the loop had raised, a tick fetched the block of a slot
\* below the highest head the loop had read.
C36_SkippedSlotFetched ==
    /\ last.op = "exit_tick"
    /\ "block" \in last.requests
    /\ seen.raised
    /\ cache_get(cache).ok
    /\ cache.slot < seen.highest
    /\ cache.slot \in seen.fetched

\* C37. The withdrawal-log watermark loses no event on a failure: a
\* get_partial_withdrawals call whose eth_getLogs query answered its logs and
\* whose head-slot lookup or validator batch lookup then failed leaves
\* last_checked_block as it was, so that a later call queries the range again.
C37_WatermarkKeptOnFailure ==
    [][(/\ last'.op = "get_partial_withdrawals"
        /\ "eth_getLogs" \in last'.requests
        /\ "eth_getLogs" \notin last'.failed
        /\ last'.failed \cap {"head", "validators_by_address"} # {}) =>
          mon'.last_checked_block = mon.last_checked_block]_vars

\* The logs of blocks up to 2 were answered, the validator lookup failed, and
\* the watermark is at block 2 with no row stored.
C37_RangeSkipped ==
    /\ last.op = "get_partial_withdrawals"
    /\ "validators_by_address" \in last.failed
    /\ last.queried # <<>>
    /\ last.queried[2] = 2
    /\ mon.last_checked_block = 2
    /\ partial_withdrawals = <<>>

\* The set of blocks has no gap.
Contiguous(blocks) ==
    \A a, b \in blocks : \A c \in a..b : c \in blocks

\* C38 as stated. Across the get_partial_withdrawals calls on one monitor the
\* queried ranges never overlap and leave no gap, last_checked_block never
\* decreases, and a call with current_block <= last_checked_block sends no
\* log query and returns the empty list.
C38_RangesDisjoint ==
    [][last'.op = "get_partial_withdrawals" =>
          /\ BlocksOf(last'.queried) \cap last.covered = {}
          /\ Contiguous(last'.covered)
          /\ mon'.last_checked_block >= mon.last_checked_block
          /\ (/\ last'.block_number.kind = "ok"
              /\ last'.block_number.data <= mon.last_checked_block) =>
                /\ "eth_getLogs" \notin last'.requests
                /\ last'.output = <<>>]_vars

\* C38 amended. Every query is for the blocks from last_checked_block + 1 to
\* current_block; the range of a query does not overlap the range of any
\* earlier query that was answered (the range of a query whose request failed
\* is queried again); the queried ranges leave no gap; an answered query
\* moves last_checked_block to its last block and a failed one leaves it;
\* last_checked_block never decreases; a call with current_block <=
\* last_checked_block sends no log query and returns the empty list.
C38_AnsweredRangesDisjoint ==
    [][last'.op = "get_partial_withdrawals" =>
          /\ last'.queried # <<>> =>
                /\ last'.queried = <<mon.last_checked_block + 1,
                                     last'.block_number.data>>
                /\ last'.queried[1] <= last'.queried[2]
                /\ mon'.last_checked_block \in
                      {mon.last_checked_block, last'.queried[2]}
                /\ (mon'.last_checked_block = last'.queried[2])
                      = (BlocksOf(last'.queried) \subseteq last'.answered)
          /\ BlocksOf(last'.queried) \cap last.answered = {}
          /\ Contiguous(last'.covered)
          /\ mon'.last_checked_block >= mon.last_checked_block
          /\ (/\ last'.block_number.kind = "ok"
              /\ last'.block_number.data <= mon.last_checked_block) =>
                /\ "eth_getLogs" \notin last'.requests
                /\ last'.queried = <<>>
                /\ last'.output = <<>>
                /\ mon'.last_checked_block = mon.last_checked_block]_vars

\* Two calls on a monitor built at block 0: the first queried block 1, the
\* second blocks 2 to 3, and the watermark is at block 3.
C38_Witness ==
    /\ last.op = "get_partial_withdrawals"
    /\ last.queried = <<2, 3>>
    /\ last.answered = 1..3
    /\ last.covered = 1..3
    /\ mon.last_checked_block = 3

\* The greatest epoch stored in validator_withdrawal_credentials, -1 when the
\* table is empty.
StoredMaxEpoch(table) == SeqMax([i \in DOMAIN table |-> table[i].epoch])

\* C39 as stated. At construction last_processed_epoch is the greatest stored
\* epoch, or -1 when the table is empty or the query fails; hence no sampler
\* tick fetches the active_ongoing validators for an epoch that is stored or
\* that is lower than the greatest stored epoch.
C39_ResumesFromStore ==
    [][/\ last'.op = "pollers_restart" =>
             sampler'.last_processed_epoch =
                 IF last'.dbUp
                 THEN StoredMaxEpoch(validator_withdrawal_credentials)
                 ELSE NoEpoch
       /\ (last'.op = "sampler_tick" /\ "active_ongoing" \in last'.requests) =>
             cache'.epoch > StoredMaxEpoch(validator_withdrawal_credentials)]_vars

\* C39 amended. At construction last_processed_epoch is the greatest stored
\* epoch, or -1 when the table is empty or the query fails. A sampler whose
\* last_processed_epoch is not below the greatest stored epoch, as it is after
\* a construction whose query went through, stays so until its process is
\* started again, and none of its ticks fetches the active_ongoing validators
\* for an epoch that is stored or lower than the greatest stored epoch.
C39_ResumesWhenQueryAnswered ==
    [][/\ last'.op = "pollers_restart" =>
             /\ sampler'.last_processed_epoch =
                   IF last'.dbUp
                   THEN StoredMaxEpoch(validator_withdrawal_credentials)
                   ELSE NoEpoch
             /\ last'.dbUp =>
                   sampler'.last_processed_epoch
                       >= StoredMaxEpoch(validator_withdrawal_credentials')
       /\ (/\ last'.op # "pollers_restart"
           /\ sampler.last_processed_epoch
                 >= StoredMaxEpoch(validator_withdrawal_credentials)) =>
             /\ sampler'.last_processed_epoch
                   >= StoredMaxEpoch(validator_withdrawal_credentials')
             /\ (/\ last'.op = "sampler_tick"
                 /\ "active_ongoing" \in last'.requests) =>
                   cache'.epoch
                       > StoredMaxEpoch(validator_withdrawal_credentials)]_vars

\* A sampler was started on a table that holds the row of epoch 2 and its
\* query was answered: its last_processed_epoch is 2.
C39_Witness ==
    /\ last.op = "pollers_restart"
    /\ last.dbUp
    /\ validator_withdrawal_credentials # <<>>
    /\ StoredMaxEpoch(validator_withdrawal_credentials) = 2
    /\ sampler.last_processed_epoch = 2

====
